---- MODULE Spec2Model ----
(***************************************************************************)
(* State-machine model of the zpaq-rs safe binding layer (src/src/lib.rs): *)
(* the process-wide error/output channel, the reader/writer bridges        *)
(* (FfiReader / FfiWriter), the one-shot stream operations, the archive    *)
(* command facade and the StreamingCompressor session.                     *)
(*                                                                         *)
(* Every public operation is one action.  The native side (the C++ shim,   *)
(* which is not part of the Rust sources) is an environment: each native   *)
(* call returns a nondeterministically chosen outcome.  Every action       *)
(* records in `last` the ordered log of the allocations, native calls,     *)
(* trampoline invocations and frees the handler performed.                 *)
(***************************************************************************)
EXTENDS Integers, Sequences, FiniteSets, TLC

VARIABLES
    errSlot,      \* error-message slot of the channel (byte sequence)
    outSlot,      \* captured-stdout slot (byte sequence)
    errOutSlot,   \* captured-stderr slot (byte sequence)
    sess,         \* StreamingCompressor sessions, by slot
    liveNative,   \* number of live native handles and boxed contexts
    leakedNative, \* how many of them belong to no object any more
    held,         \* the caller's data: an input and what was computed from it
    cw,           \* a CountingWriter and the writes it has accepted
    thr,          \* callers on threads of their own, each inside one operation
    heap,         \* the native handles and boxed contexts, by address
    task,         \* threads running operations and sessions of their own
    last          \* record of the call that has just returned

vars ==
    <<errSlot, outSlot, errOutSlot, sess, liveNative, leakedNative, held, cw,
      thr, heap, task, last>>

(***************************** bounds ***************************************)
MaxSessions == 1    \* session slots
MaxPush == 2        \* bytes a session's queue may hold
MaxCb == 1          \* trampoline invocations during one native call
MaxLeak == 5        \* cap on leakedNative (one leaking call)
MaxStrLen == 2      \* length of the method strings drawn from MethodAlphabet
MaxDigits == 10     \* length of the long digit strings
MaxBits == 4        \* cap on a compressor's bit counter

(***************************** values ***************************************)
None == <<>>
Some(x) == <<x>>

BoundedSeq(S, n) == UNION {[1..k -> S] : k \in 0..n}

\* F applied to the value v, which is computed once (a `let` or a `match`
\* on the result of a call).
Bind(v, F(_)) == CHOOSE x \in {F(y) : y \in {v}} : TRUE

\* "unknown error"
UnknownError == <<117, 110, 107, 110, 111, 119, 110, 32, 101, 114, 114, 111, 114>>

RUST_CALLBACK_ERROR == -2

\* Result values.
Ok == [kind |-> "Ok", msg |-> <<>>]
NulInString == [kind |-> "NulInString", msg |-> <<>>]
Ffi(m) == [kind |-> "Ffi", msg |-> m]

\* CString::new(s) fails exactly when s holds a 0 byte.
HasNul(s) == \E i \in DOMAIN s : s[i] = 0

OptHasNul(o) == o # None /\ HasNul(o[1])

(***************************** UTF-8 ****************************************)
IsCont(c) == c >= 128 /\ c <= 191

RECURSIVE Utf8From(_, _)
Utf8From(b, i) ==
    IF i > Len(b) THEN TRUE
    ELSE LET c == b[i] IN
         IF c < 128 THEN Utf8From(b, i + 1)
         ELSE IF c >= 194 /\ c <= 223
              THEN i + 1 <= Len(b) /\ IsCont(b[i + 1]) /\ Utf8From(b, i + 2)
         ELSE IF c >= 224 /\ c <= 239
              THEN /\ i + 2 <= Len(b)
                   /\ IsCont(b[i + 1]) /\ IsCont(b[i + 2])
                   /\ (c = 224 => b[i + 1] >= 160)
                   /\ (c = 237 => b[i + 1] <= 159)
                   /\ Utf8From(b, i + 3)
         ELSE IF c >= 240 /\ c <= 244
              THEN /\ i + 3 <= Len(b)
                   /\ IsCont(b[i + 1]) /\ IsCont(b[i + 2]) /\ IsCont(b[i + 3])
                   /\ (c = 240 => b[i + 1] >= 144)
                   /\ (c = 244 => b[i + 1] <= 143)
                   /\ Utf8From(b, i + 4)
         ELSE FALSE

\* String::from_utf8(buf).ok()
from_utf8_ok(b) == IF Utf8From(b, 1) THEN Some(b) ELSE None

(***************************** error channel ********************************)
\* last_error_string(): None when the slot is empty, else the slot's bytes as
\* a String, None again when they are not UTF-8.
last_error_string(slot) ==
    IF Len(slot) = 0 THEN None ELSE from_utf8_ok(slot)

last_stdout_string(slot) ==
    IF Len(slot) = 0 THEN None ELSE from_utf8_ok(slot)

last_stderr_string(slot) ==
    IF Len(slot) = 0 THEN None ELSE from_utf8_ok(slot)

err_from_last(slot) ==
    LET s == last_error_string(slot)
    IN  IF s # None THEN Ffi(s[1]) ELSE Ffi(UnknownError)

\* zpaq_clear_last_error / zpaq_clear_last_output: the slot becomes empty.
clear_last_error == <<>>
clear_last_output == <<>>

\* What a native call may leave in the error slot: nothing (None) or a message.
\* "e", a two-byte UTF-8 character, and a byte that is not UTF-8.
NativeMsgs == {<<101>>, <<195, 169>>, <<255>>}
NativeWrites == {None} \cup {Some(m) : m \in NativeMsgs}

\* The slot after a native call that wrote `wr`.
AfterNative(slot, wr) == IF wr = None THEN slot ELSE wr[1]

(***************************** event logs ***********************************)
\* A log is a sequence of events <<kind, name>>:
\*   <<"alloc", r>>   resource r came to life (Box::into_raw, a native _new)
\*   <<"free", r>>    resource r was released (Box::from_raw, a native _free)
\*   <<"native", f>>  native entry point f was called
\*   <<"tramp", c>>   a trampoline ran on context c
\*   <<"errread", f>> the error slot was read to build an error
HandleNames == {"compressor", "reader", "writer"}
CtxNames == {"reader_ctx", "writer_ctx"}
ResNames == HandleNames \cup CtxNames

HandleOf(c) == IF c = "reader_ctx" THEN "reader" ELSE "writer"

NoRes == [n \in ResNames |-> 0]
AllRes == [n \in ResNames |-> 1]

Count(log, e) == Cardinality({i \in DOMAIN log : log[i] = e})
Allocs(log, n) == Count(log, <<"alloc", n>>)
Frees(log, n) == Count(log, <<"free", n>>)

\* Whether resource n is live just before event i of log, given the
\* resources `pre` live when the call began.
LiveAt(pre, log, i, n) ==
    pre[n] + Count(SubSeq(log, 1, i - 1), <<"alloc", n>>)
           - Count(SubSeq(log, 1, i - 1), <<"free", n>>) > 0

\* Net change of the number of live resources made by a log.
LiveDelta(log) ==
    Cardinality({i \in DOMAIN log : log[i][1] = "alloc"})
  - Cardinality({i \in DOMAIN log : log[i][1] = "free"})

\* The resources left live after the log.
ResAfter(pre, log) ==
    [n \in ResNames |-> pre[n] + Allocs(log, n) - Frees(log, n)]

(***************************** native outcomes *****************************)
\* The outcome the native side gives one bridge-based call:
\*   rnew, wnew  zpaq_reader_new / zpaq_writer_new return a non-null handle
\*   rc          return code of the native entry point
\*   wr          what the first failing native call leaves in the error slot
\*   cbs         the contexts on which the entry point runs a trampoline
\* Only the outcomes the handler reads are enumerated: nothing follows the
\* first failure.
BridgeOutcomes(ctxs) ==
    {[rnew |-> FALSE, wnew |-> TRUE, rc |-> 0, wr |-> w, cbs |-> <<>>] :
        w \in NativeWrites}
    \cup
    (IF "writer_ctx" \in ctxs
     THEN {[rnew |-> TRUE, wnew |-> FALSE, rc |-> 0, wr |-> w, cbs |-> <<>>] :
              w \in NativeWrites}
     ELSE {})
    \cup
    {[rnew |-> TRUE, wnew |-> TRUE, rc |-> 1, wr |-> w, cbs |-> c] :
        w \in NativeWrites, c \in BoundedSeq(ctxs, MaxCb)}
    \cup
    {[rnew |-> TRUE, wnew |-> TRUE, rc |-> 0, wr |-> None, cbs |-> c] :
        c \in BoundedSeq(ctxs, MaxCb)}

\* The events of one native entry-point call: the call, then its trampolines.
NativeCall(f, cbs) ==
    <<<<"native", f>>>> \o [i \in DOMAIN cbs |-> <<"tramp", cbs[i]>>]

\* What a handler returns: its log, the error slot it leaves, its result.
Ret(log, slot, result) == [log |-> log, slot |-> slot, result |-> result]

(***************************** bridges **************************************)
\* FfiReader::new that builds its error before it frees the context.
FfiReader_new_ErrFirst(slot, nat) ==
    LET made == <<<<"alloc", "reader_ctx">>, <<"native", "zpaq_reader_new">>>>
    IN  IF ~nat.rnew
        THEN LET s1 == AfterNative(slot, nat.wr)
             IN  [ok |-> FALSE,
                  log |-> made \o <<<<"errread", "FfiReader::new">>,
                                    <<"free", "reader_ctx">>>>,
                  slot |-> s1,
                  result |-> err_from_last(s1)]
        ELSE [ok |-> TRUE,
              log |-> made \o <<<<"alloc", "reader">>>>,
              slot |-> slot,
              result |-> Ok]

\* FfiReader::new: box the context, register it; on a null handle free the
\* context and return the channel's error.
FfiReader_new(slot, nat) ==
    LET made == <<<<"alloc", "reader_ctx">>, <<"native", "zpaq_reader_new">>>>
    IN  IF ~nat.rnew
        THEN LET s1 == AfterNative(slot, nat.wr)
             IN  [ok |-> FALSE,
                  log |-> made \o <<<<"free", "reader_ctx">>,
                                    <<"errread", "FfiReader::new">>>>,
                  slot |-> s1,
                  result |-> err_from_last(s1)]
        ELSE [ok |-> TRUE,
              log |-> made \o <<<<"alloc", "reader">>>>,
              slot |-> slot,
              result |-> Ok]

\* A drop that reclaims the context before it destroys the native handle.
FfiReader_drop_CtxFirst == <<<<"free", "reader_ctx">>, <<"free", "reader">>>>

FfiReader_drop == <<<<"free", "reader">>, <<"free", "reader_ctx">>>>

\* FfiWriter::new that forgets the context when registration fails.
FfiWriter_new_KeepsCtx(slot, nat) ==
    LET made == <<<<"alloc", "writer_ctx">>, <<"native", "zpaq_writer_new">>>>
    IN  IF ~nat.wnew
        THEN LET s1 == AfterNative(slot, nat.wr)
             IN  [ok |-> FALSE,
                  log |-> made \o <<<<"errread", "FfiWriter::new">>>>,
                  slot |-> s1,
                  result |-> err_from_last(s1)]
        ELSE [ok |-> TRUE,
              log |-> made \o <<<<"alloc", "writer">>>>,
              slot |-> slot,
              result |-> Ok]

FfiWriter_new(slot, nat) ==
    LET made == <<<<"alloc", "writer_ctx">>, <<"native", "zpaq_writer_new">>>>
    IN  IF ~nat.wnew
        THEN LET s1 == AfterNative(slot, nat.wr)
             IN  [ok |-> FALSE,
                  log |-> made \o <<<<"free", "writer_ctx">>,
                                    <<"errread", "FfiWriter::new">>>>,
                  slot |-> s1,
                  result |-> err_from_last(s1)]
        ELSE [ok |-> TRUE,
              log |-> made \o <<<<"alloc", "writer">>>>,
              slot |-> slot,
              result |-> Ok]

FfiWriter_drop == <<<<"free", "writer">>, <<"free", "writer_ctx">>>>

(***************************** one-shot operations **************************)
ClearErr == <<<<"native", "zpaq_clear_last_error">>>>

\* A compress_stream that builds its bridges before it checks the strings.
compress_stream_LateNulCheck(slot, method, filename, comment, nat) ==
    LET s0 == clear_last_error
        r == FfiReader_new(s0, nat)
    IN  IF ~r.ok THEN Ret(ClearErr \o r.log, r.slot, r.result)
        ELSE
        LET w == FfiWriter_new(r.slot, nat)
        IN  IF ~w.ok
            THEN Ret(ClearErr \o r.log \o w.log \o FfiReader_drop,
                     w.slot, w.result)
            ELSE
            IF HasNul(method) \/ OptHasNul(filename) \/ OptHasNul(comment)
            THEN Ret(ClearErr \o r.log \o w.log
                         \o FfiWriter_drop \o FfiReader_drop,
                     w.slot, NulInString)
            ELSE
            LET call == NativeCall("zpaq_compress", nat.cbs)
                pre == ClearErr \o r.log \o w.log \o call
            IN  IF nat.rc = 0
                THEN Ret(pre \o FfiWriter_drop \o FfiReader_drop,
                         w.slot, Ok)
                ELSE LET s1 == AfterNative(w.slot, nat.wr)
                     IN  Ret(pre \o <<<<"errread", "compress_stream">>>>
                                 \o FfiWriter_drop \o FfiReader_drop,
                             s1, err_from_last(s1))

\* compress_stream: clear the error slot, NUL-check method, filename and
\* comment, build the reader and the writer bridge, call zpaq_compress; the
\* error is built first and the locals (writer, then reader) drop on return.
compress_stream(slot, method, filename, comment, nat) ==
    LET s0 == clear_last_error
    IN  IF HasNul(method) \/ OptHasNul(filename) \/ OptHasNul(comment)
        THEN Ret(ClearErr, s0, NulInString)
        ELSE
        LET r == FfiReader_new(s0, nat)
        IN  IF ~r.ok THEN Ret(ClearErr \o r.log, r.slot, r.result)
            ELSE
            LET w == FfiWriter_new(r.slot, nat)
            IN  IF ~w.ok
                THEN Ret(ClearErr \o r.log \o w.log \o FfiReader_drop,
                         w.slot, w.result)
                ELSE
                LET call == NativeCall("zpaq_compress", nat.cbs)
                    pre == ClearErr \o r.log \o w.log \o call
                IN  IF nat.rc = 0
                    THEN Ret(pre \o FfiWriter_drop \o FfiReader_drop,
                             w.slot, Ok)
                    ELSE LET s1 == AfterNative(w.slot, nat.wr)
                         IN  Ret(pre \o <<<<"errread", "compress_stream">>>>
                                     \o FfiWriter_drop \o FfiReader_drop,
                                 s1, err_from_last(s1))

decompress_stream(slot, nat) ==
    LET s0 == clear_last_error
        r == FfiReader_new(s0, nat)
    IN  IF ~r.ok THEN Ret(ClearErr \o r.log, r.slot, r.result)
        ELSE
        LET w == FfiWriter_new(r.slot, nat)
        IN  IF ~w.ok
            THEN Ret(ClearErr \o r.log \o w.log \o FfiReader_drop,
                     w.slot, w.result)
            ELSE
            LET call == NativeCall("zpaq_decompress", nat.cbs)
                pre == ClearErr \o r.log \o w.log \o call
            IN  IF nat.rc = 0
                THEN Ret(pre \o FfiWriter_drop \o FfiReader_drop, w.slot, Ok)
                ELSE LET s1 == AfterNative(w.slot, nat.wr)
                     IN  Ret(pre \o <<<<"errread", "decompress_stream">>>>
                                 \o FfiWriter_drop \o FfiReader_drop,
                             s1, err_from_last(s1))

\* A compress_size_stream that also installs a writer bridge.
compress_size_stream_WithWriter(slot, method, filename, comment, nat) ==
    LET s0 == clear_last_error
    IN  IF HasNul(method) \/ OptHasNul(filename) \/ OptHasNul(comment)
        THEN Ret(ClearErr, s0, NulInString)
        ELSE
        LET r == FfiReader_new(s0, nat)
        IN  IF ~r.ok THEN Ret(ClearErr \o r.log, r.slot, r.result)
            ELSE
            LET w == FfiWriter_new(r.slot, nat)
                call == NativeCall("zpaq_compress_size", nat.cbs)
                pre == ClearErr \o r.log \o w.log \o call
            IN  IF nat.rc = 0
                THEN Ret(pre \o FfiWriter_drop \o FfiReader_drop, w.slot, Ok)
                ELSE LET s1 == AfterNative(w.slot, nat.wr)
                     IN  Ret(pre \o <<<<"errread", "compress_size_stream">>>>
                                 \o FfiWriter_drop \o FfiReader_drop,
                             s1, err_from_last(s1))

\* compress_size_stream: as compress_stream without a writer bridge.
compress_size_stream(slot, method, filename, comment, nat) ==
    LET s0 == clear_last_error
    IN  IF HasNul(method) \/ OptHasNul(filename) \/ OptHasNul(comment)
        THEN Ret(ClearErr, s0, NulInString)
        ELSE
        LET r == FfiReader_new(s0, nat)
        IN  IF ~r.ok THEN Ret(ClearErr \o r.log, r.slot, r.result)
            ELSE
            LET call == NativeCall("zpaq_compress_size", nat.cbs)
                pre == ClearErr \o r.log \o call
            IN  IF nat.rc = 0
                THEN Ret(pre \o FfiReader_drop, r.slot, Ok)
                ELSE LET s1 == AfterNative(r.slot, nat.wr)
                     IN  Ret(pre \o <<<<"errread", "compress_size_stream">>>>
                                 \o FfiReader_drop,
                             s1, err_from_last(s1))

compress_size_stream_parallel(slot, method, filename, comment, nat) ==
    LET s0 == clear_last_error
    IN  IF HasNul(method) \/ OptHasNul(filename) \/ OptHasNul(comment)
        THEN Ret(ClearErr, s0, NulInString)
        ELSE
        LET r == FfiReader_new(s0, nat)
        IN  IF ~r.ok THEN Ret(ClearErr \o r.log, r.slot, r.result)
            ELSE
            LET call == NativeCall("zpaq_compress_size_parallel", nat.cbs)
                pre == ClearErr \o r.log \o call
            IN  IF nat.rc = 0
                THEN Ret(pre \o FfiReader_drop, r.slot, Ok)
                ELSE LET s1 == AfterNative(r.slot, nat.wr)
                     IN  Ret(pre
                               \o <<<<"errread", "compress_size_stream_parallel">>>>
                               \o FfiReader_drop,
                             s1, err_from_last(s1))

decompress_size_stream(slot, nat) ==
    LET s0 == clear_last_error
        r == FfiReader_new(s0, nat)
    IN  IF ~r.ok THEN Ret(ClearErr \o r.log, r.slot, r.result)
        ELSE
        LET call == NativeCall("zpaq_decompress_size", nat.cbs)
            pre == ClearErr \o r.log \o call
        IN  IF nat.rc = 0
            THEN Ret(pre \o FfiReader_drop, r.slot, Ok)
            ELSE LET s1 == AfterNative(r.slot, nat.wr)
                 IN  Ret(pre \o <<<<"errread", "decompress_size_stream">>>>
                             \o FfiReader_drop,
                         s1, err_from_last(s1))

\* zpaq_add_archive_size_file: clear the error slot, NUL-check path and
\* method, call the native pipeline.  No bridge is built.
zpaq_add_archive_size_file(slot, path, method, nat) ==
    LET s0 == clear_last_error
    IN  IF HasNul(path) \/ HasNul(method)
        THEN Ret(ClearErr, s0, NulInString)
        ELSE
        LET pre == ClearErr \o NativeCall("zpaq_jidac_add_archive_size_file", <<>>)
        IN  IF nat.rc = 0
            THEN Ret(pre, s0, Ok)
            ELSE LET s1 == AfterNative(s0, nat.wr)
                 IN  Ret(pre \o <<<<"errread", "zpaq_add_archive_size_file">>>>,
                         s1, err_from_last(s1))

(***************************** archive command facade ***********************)
\* Decimal text of a non-negative integer (usize::to_string).
RECURSIVE ToDecimal(_)
ToDecimal(n) ==
    IF n < 10 THEN <<48 + n>> ELSE ToDecimal(n \div 10) \o <<48 + (n % 10)>>

ProgName == <<122, 112, 97, 113>>                        \* "zpaq"
WordAdd == <<97, 100, 100>>                              \* "add"
WordExtract == <<101, 120, 116, 114, 97, 99, 116>>       \* "extract"
WordList == <<108, 105, 115, 116>>                       \* "list"
OptMethod == <<45, 109, 101, 116, 104, 111, 100>>        \* "-method"
OptThreads == <<45, 116, 104, 114, 101, 97, 100, 115>>   \* "-threads"
\* "zpaq add requires at least one input path"
AddNeedsInput ==
    <<122, 112, 97, 113, 32, 97, 100, 100, 32, 114, 101, 113, 117, 105, 114,
      101, 115, 32, 97, 116, 32, 108, 101, 97, 115, 116, 32, 111, 110, 101,
      32, 105, 110, 112, 117, 116, 32, 112, 97, 116, 104>>

\* Text the archive tool may leave in the stdout / stderr slots.
OutTexts == {<<111>>}
OutWrites == {None} \cup {Some(t) : t \in OutTexts}

\* Outcomes of zpaq_jidac_run: return code, error-slot write, captured text.
CmdOutcomes ==
    {[rc |-> 0, wr |-> None, out |-> o, eout |-> e] :
        o \in OutWrites, e \in OutWrites}
    \cup
    {[rc |-> 1, wr |-> w, out |-> o, eout |-> e] :
        w \in NativeWrites, o \in OutWrites, e \in OutWrites}

CmdRet(log, slot, out, eout, result, stdout, stderr, argv) ==
    [log |-> log, slot |-> slot, out |-> out, eout |-> eout,
     result |-> result, stdout |-> stdout, stderr |-> stderr, argv |-> argv]

unwrap_or_default(o) == IF o = None THEN <<>> ELSE o[1]

\* A zpaq_command_inner that does not clear the output slots.
zpaq_command_inner_NoOutputClear(args, nat) ==
    LET s0 == clear_last_error
        cleared == <<<<"native", "zpaq_clear_last_error">>>>
        cargs == <<ProgName>> \o args
    IN  IF \E i \in DOMAIN cargs : HasNul(cargs[i])
        THEN CmdRet(cleared, s0, outSlot, errOutSlot, NulInString,
                    <<>>, <<>>, <<>>)
        ELSE
        LET log == cleared \o NativeCall("zpaq_jidac_run", <<>>)
            s1 == AfterNative(s0, nat.wr)
            o1 == AfterNative(outSlot, nat.out)
            e1 == AfterNative(errOutSlot, nat.eout)
        IN  IF nat.rc # 0
            THEN CmdRet(log \o <<<<"errread", "zpaq_command_inner">>>>,
                        s1, o1, e1, err_from_last(s1), <<>>, <<>>, cargs)
            ELSE CmdRet(log, s1, o1, e1, Ok,
                        unwrap_or_default(last_stdout_string(o1)),
                        unwrap_or_default(last_stderr_string(e1)), cargs)

\* zpaq_command_inner: clear the error and output slots, build the argument
\* vector ("zpaq" first) with a NUL check of every argument, run the tool
\* once, and return the captured text or the channel's error.
zpaq_command_inner(args, nat) ==
    LET s0 == clear_last_error
        o0 == clear_last_output
        cleared == <<<<"native", "zpaq_clear_last_error">>,
                     <<"native", "zpaq_clear_last_output">>>>
        cargs == <<ProgName>> \o args
    IN  IF \E i \in DOMAIN cargs : HasNul(cargs[i])
        THEN CmdRet(cleared, s0, o0, o0, NulInString, <<>>, <<>>, <<>>)
        ELSE
        LET log == cleared \o NativeCall("zpaq_jidac_run", <<>>)
            s1 == AfterNative(s0, nat.wr)
            o1 == AfterNative(o0, nat.out)
            e1 == AfterNative(o0, nat.eout)
        IN  IF nat.rc # 0
            THEN CmdRet(log \o <<<<"errread", "zpaq_command_inner">>>>,
                        s1, o1, e1, err_from_last(s1), <<>>, <<>>, cargs)
            ELSE CmdRet(log, s1, o1, e1, Ok,
                        unwrap_or_default(last_stdout_string(o1)),
                        unwrap_or_default(last_stderr_string(e1)), cargs)

zpaq_command(args, nat) == zpaq_command_inner(args, nat)

\* A zpaq_add that clears the channel before it looks at its inputs.
zpaq_add_ClearsFirst(slots, archive, inputs, method, threads, nat) ==
    IF inputs = <<>>
    THEN CmdRet(<<<<"native", "zpaq_clear_last_error">>,
                  <<"native", "zpaq_clear_last_output">>>>,
                clear_last_error, clear_last_output, clear_last_output,
                Ffi(AddNeedsInput), <<>>, <<>>, <<>>)
    ELSE zpaq_command_inner(
             <<WordAdd, archive>> \o inputs
                 \o <<OptMethod, method, OptThreads, ToDecimal(threads)>>,
             nat)

\* A zpaq_add that puts the thread option before the method option.
zpaq_add_ThreadsFirst(slots, archive, inputs, method, threads, nat) ==
    IF inputs = <<>>
    THEN CmdRet(<<>>, slots[1], slots[2], slots[3], Ffi(AddNeedsInput),
                <<>>, <<>>, <<>>)
    ELSE zpaq_command_inner(
             <<WordAdd, archive>> \o inputs
                 \o <<OptThreads, ToDecimal(threads), OptMethod, method>>,
             nat)

\* zpaq_add: an empty input list is refused before anything else happens.
zpaq_add(slots, archive, inputs, method, threads, nat) ==
    IF inputs = <<>>
    THEN CmdRet(<<>>, slots[1], slots[2], slots[3], Ffi(AddNeedsInput),
                <<>>, <<>>, <<>>)
    ELSE zpaq_command_inner(
             <<WordAdd, archive>> \o inputs
                 \o <<OptMethod, method, OptThreads, ToDecimal(threads)>>,
             nat)

zpaq_extract(archive, files, nat) ==
    zpaq_command_inner(<<WordExtract, archive>> \o files, nat)

zpaq_list(archive, files, nat) ==
    zpaq_command_inner(<<WordList, archive>> \o files, nat)

(***************************** call records *********************************)
\* The record of a completed call: the operation, the session slot it ran on
\* (0: none), the caller's string arguments (each an Option), the resources
\* live and the three slots of the channel when it began, the outcome the
\* native side gave it, its log and its result; value is the Ok value of a
\* call that returns data (as an Option).
MkLast(op, sid, args, pre, env, r) ==
    [op |-> op, sid |-> sid, args |-> args, pre |-> pre, slot0 |-> errSlot,
     out0 |-> outSlot, eout0 |-> errOutSlot,
     env |-> env, log |-> r.log, result |-> r.result,
     stdout |-> <<>>, stderr |-> <<>>, argv |-> <<>>, value |-> <<>>]

MkCmdLast(op, args, env, r) ==
    [op |-> op, sid |-> 0, args |-> args, pre |-> NoRes, slot0 |-> errSlot,
     out0 |-> outSlot, eout0 |-> errOutSlot,
     env |-> env, log |-> r.log, result |-> r.result,
     stdout |-> r.stdout, stderr |-> r.stderr, argv |-> r.argv,
     value |-> <<>>]

\* No call has returned since the caller took the last result.
IdleLast ==
    [op |-> "idle", sid |-> 0, args |-> <<>>, pre |-> NoRes, slot0 |-> <<>>,
     out0 |-> <<>>, eout0 |-> <<>>,
     env |-> <<>>, log |-> <<>>, result |-> Ok,
     stdout |-> <<>>, stderr |-> <<>>, argv |-> <<>>, value |-> <<>>]

\* String arguments the callers pass: with and without a NUL byte.
ArgStrs == {<<120>>, <<120, 0>>}
OptArgStrs == {None} \cup {Some(s) : s \in ArgStrs}
FileLists == BoundedSeq(ArgStrs, 1)
ThreadCounts == {0, 12}

NoCmdOutcome == [rc |-> 0, wr |-> None, out |-> None, eout |-> None]

\* Outcomes that matter for the given arguments: a call refused for a NUL byte
\* reads no native outcome.
BridgeOutcomesFor(args, ctxs) ==
    IF \E i \in DOMAIN args : OptHasNul(args[i])
    THEN {[rnew |-> TRUE, wnew |-> TRUE, rc |-> 0, wr |-> None, cbs |-> <<>>]}
    ELSE BridgeOutcomes(ctxs)

CmdOutcomesFor(args) ==
    IF \E i \in DOMAIN args : HasNul(args[i])
    THEN {NoCmdOutcome} ELSE CmdOutcomes

(***************************** actions: one-shot ****************************)
\* State change of an operation that owns no object once it has returned.
OneShot(op, args, env, r) ==
    /\ last.op = "idle"
    /\ errSlot' = r.slot
    /\ liveNative' = liveNative + LiveDelta(r.log)
    /\ leakedNative' = leakedNative + LiveDelta(r.log)
    /\ leakedNative' <= MaxLeak
    /\ last' = MkLast(op, 0, args, NoRes, env, r)
    /\ UNCHANGED <<outSlot, errOutSlot, sess, held, cw, thr,
                   heap, task>>

Command(op, args, env, r) ==
    /\ last.op = "idle"
    /\ errSlot' = r.slot
    /\ outSlot' = r.out
    /\ errOutSlot' = r.eout
    /\ last' = MkCmdLast(op, args, env, r)
    /\ UNCHANGED <<sess, liveNative, leakedNative, held, cw,
                   thr, heap, task>>

CompressStream ==
    \E m \in ArgStrs, f \in OptArgStrs, c \in OptArgStrs :
      \E nat \in BridgeOutcomesFor(<<Some(m), f, c>>, CtxNames) :
        OneShot("compress_stream", <<Some(m), f, c>>, nat,
                compress_stream(errSlot, m, f, c, nat))

DecompressStream ==
    \E nat \in BridgeOutcomes(CtxNames) :
        OneShot("decompress_stream", <<>>, nat,
                decompress_stream(errSlot, nat))

CompressSizeStream ==
    \E m \in ArgStrs, f \in OptArgStrs, c \in OptArgStrs :
      \E nat \in BridgeOutcomesFor(<<Some(m), f, c>>, {"reader_ctx"}) :
        OneShot("compress_size_stream", <<Some(m), f, c>>, nat,
                compress_size_stream(errSlot, m, f, c, nat))

CompressSizeStreamParallel ==
    \E m \in ArgStrs, f \in OptArgStrs, c \in OptArgStrs :
      \E nat \in BridgeOutcomesFor(<<Some(m), f, c>>, {"reader_ctx"}) :
        OneShot("compress_size_stream_parallel", <<Some(m), f, c>>, nat,
                compress_size_stream_parallel(errSlot, m, f, c, nat))

DecompressSizeStream ==
    \E nat \in BridgeOutcomes({"reader_ctx"}) :
        OneShot("decompress_size_stream", <<>>, nat,
                decompress_size_stream(errSlot, nat))

ZpaqAddArchiveSizeFile ==
    \E p \in ArgStrs, m \in ArgStrs :
      \E nat \in BridgeOutcomesFor(<<Some(p), Some(m)>>, {}) :
        /\ nat.rnew /\ nat.wnew
        /\ OneShot("zpaq_add_archive_size_file", <<Some(p), Some(m)>>, nat,
                   zpaq_add_archive_size_file(errSlot, p, m, nat))

ZpaqCommand ==
    \E args \in BoundedSeq(ArgStrs, 1) :
      \E nat \in CmdOutcomesFor(args) :
        Command("zpaq_command", [i \in DOMAIN args |-> Some(args[i])], nat,
                zpaq_command(args, nat))

ZpaqAdd ==
    \E a \in ArgStrs, ins \in FileLists, m \in ArgStrs, t \in ThreadCounts :
      \E nat \in (IF ins = <<>> THEN {NoCmdOutcome}
                  ELSE CmdOutcomesFor(<<a, m>> \o ins)) :
        Command("zpaq_add",
                <<Some(a)>> \o [i \in DOMAIN ins |-> Some(ins[i])] \o <<Some(m)>>,
                nat,
                zpaq_add(<<errSlot, outSlot, errOutSlot>>, a, ins, m, t, nat))

ZpaqExtract ==
    \E a \in ArgStrs, fs \in FileLists :
      \E nat \in CmdOutcomesFor(<<a>> \o fs) :
        Command("zpaq_extract",
                <<Some(a)>> \o [i \in DOMAIN fs |-> Some(fs[i])], nat,
                zpaq_extract(a, fs, nat))

ZpaqList ==
    \E a \in ArgStrs, fs \in FileLists :
      \E nat \in CmdOutcomesFor(<<a>> \o fs) :
        Command("zpaq_list",
                <<Some(a)>> \o [i \in DOMAIN fs |-> Some(fs[i])], nat,
                zpaq_list(a, fs, nat))

(***************************** method strings *******************************)
\* str::trim: strip leading and trailing white space.
IsSpace(c) == c \in {9, 10, 11, 12, 13, 32}

RECURSIVE TrimStart(_)
TrimStart(s) ==
    IF s # <<>> /\ IsSpace(s[1]) THEN TrimStart(Tail(s)) ELSE s

RECURSIVE TrimEnd(_)
TrimEnd(s) ==
    IF s # <<>> /\ IsSpace(s[Len(s)])
    THEN TrimEnd(SubSeq(s, 1, Len(s) - 1)) ELSE s

trim(s) == TrimEnd(TrimStart(s))

I32Max == 2147483647
I32Min == -I32Max - 1

IsDigit(c) == c >= 48 /\ c <= 57

\* i32::checked_mul(acc, 10)
checked_mul10(acc) ==
    IF acc > I32Max \div 10 \/ acc < -(I32Max \div 10)
    THEN None ELSE Some(acc * 10)

\* i32::checked_add(m, d) and i32::checked_sub(m, d), for a digit d
checked_add(m, d) == IF m > I32Max - d THEN None ELSE Some(m + d)
checked_sub(m, d) == IF m < I32Min + d THEN None ELSE Some(m - d)

\* The digit loop of str::parse::<i32>: every step is a checked multiply and
\* a checked add (subtract for a negative number); a non-digit or an overflow
\* gives None.
RECURSIVE ParseDigits(_, _, _, _)
ParseDigits(s, i, acc, neg) ==
    IF i > Len(s) THEN Some(acc)
    ELSE IF ~IsDigit(s[i]) THEN None
    ELSE LET d == s[i] - 48
             m == checked_mul10(acc)
             v == IF m = None THEN None
                  ELSE IF neg THEN checked_sub(m[1], d)
                  ELSE checked_add(m[1], d)
         IN  IF v = None THEN None
             ELSE ParseDigits(s, i + 1, v[1], neg)

\* method_trim.parse::<i32>().ok()
parse_i32(s) ==
    IF s = <<>> THEN None
    ELSE IF s[1] = 43 \/ s[1] = 45
         THEN IF Len(s) = 1 THEN None ELSE ParseDigits(s, 2, 0, s[1] = 45)
         ELSE ParseDigits(s, 1, 0, FALSE)

\* A filter that lets the levels 4 and 5 through.
LevelOf_UpTo5(numeric) ==
    IF numeric # None /\ numeric[1] >= 1 /\ numeric[1] <= 5
    THEN numeric ELSE None

\* numeric.filter(|v| (1..=3).contains(v))
LevelOf(numeric) ==
    IF numeric # None /\ numeric[1] >= 1 /\ numeric[1] <= 3
    THEN numeric ELSE None

\* "method string is empty"
MsgEmptyMethod ==
    <<109, 101, 116, 104, 111, 100, 32, 115, 116, 114, 105, 110, 103, 32, 105,
      115, 32, 101, 109, 112, 116, 121>>
\* "streaming numeric levels support 1..3 only; use x/s/i/0 with no preprocessing"
MsgLevels ==
    <<115, 116, 114, 101, 97, 109, 105, 110, 103, 32, 110, 117, 109, 101, 114,
      105, 99, 32, 108, 101, 118, 101, 108, 115, 32, 115, 117, 112, 112, 111,
      114, 116, 32, 49, 46, 46, 51, 32, 111, 110, 108, 121, 59, 32, 117, 115,
      101, 32, 120, 47, 115, 47, 105, 47, 48, 32, 119, 105, 116, 104, 32, 110,
      111, 32, 112, 114, 101, 112, 114, 111, 99, 101, 115, 115, 105, 110, 103>>
\* "zpaq_compressor_new failed"
MsgCompressorNew ==
    <<122, 112, 97, 113, 95, 99, 111, 109, 112, 114, 101, 115, 115, 111, 114,
      95, 110, 101, 119, 32, 102, 97, 105, 108, 101, 100>>
\* "zpaq_reader_new failed"
MsgReaderNew ==
    <<122, 112, 97, 113, 95, 114, 101, 97, 100, 101, 114, 95, 110, 101, 119,
      32, 102, 97, 105, 108, 101, 100>>
\* "zpaq_writer_new failed"
MsgWriterNew ==
    <<122, 112, 97, 113, 95, 119, 114, 105, 116, 101, 114, 95, 110, 101, 119,
      32, 102, 97, 105, 108, 101, 100>>

(***************************** StreamingCompressor::new *********************)
\* The native steps of StreamingCompressor::new, in the order it makes them.
NewSteps ==
    <<"zpaq_compressor_new", "zpaq_reader_new", "zpaq_writer_new",
      "zpaq_compressor_set_output", "zpaq_compressor_set_input",
      "zpaq_compressor_write_tag", "start_block",
      "zpaq_compressor_start_segment">>

\* Outcomes of one call of new: the step that fails ("none": every step
\* succeeds) and what that step leaves in the error slot.
NewOutcomes(writes) ==
    {[failAt |-> "none", wr |-> None]}
    \cup {[failAt |-> NewSteps[k], wr |-> w] :
             k \in DOMAIN NewSteps, w \in writes}

NewRet(ok, log, slot, result) ==
    [ok |-> ok, log |-> log, slot |-> slot, result |-> result]

\* The cleanup blocks of new, as written at each failing step.
UnwindReaderNull ==
    <<<<"free", "compressor">>, <<"free", "reader_ctx">>,
      <<"free", "writer_ctx">>>>

UnwindWriterNull ==
    <<<<"free", "reader">>, <<"free", "compressor">>,
      <<"free", "reader_ctx">>, <<"free", "writer_ctx">>>>

UnwindAll ==
    <<<<"free", "writer">>, <<"free", "reader">>, <<"free", "compressor">>,
      <<"free", "reader_ctx">>, <<"free", "writer_ctx">>>>

\* What the NUL check of the explicit method string releases before it
\* returns: the `?` returns at once.
UnwindNulMethod == <<>>

\* A failing protocol step: cleanup, then the channel's error.
NewFail(log, slot, nat) ==
    LET s1 == AfterNative(slot, nat.wr)
    IN  NewRet(FALSE,
               log \o UnwindAll \o <<<<"errread", "StreamingCompressor::new">>>>,
               s1, err_from_last(s1))

\* The start-segment call with its filename and comment arguments.
StartSegment(filename, comment) ==
    <<"native", "zpaq_compressor_start_segment", <<filename, comment>>>>

\* A new that attaches the input before the output.
StreamingCompressor_new_InputFirst(slot, method, nat) ==
    LET method_trim == trim(method)
        numeric == parse_i32(method_trim)
        level == LevelOf(numeric)
    IN
    IF method_trim = <<>> THEN NewRet(FALSE, <<>>, slot, Ffi(MsgEmptyMethod))
    ELSE IF numeric # None /\ level = None
    THEN NewRet(FALSE, <<>>, slot, Ffi(MsgLevels))
    ELSE
    LET l1 == <<<<"native", "zpaq_compressor_new">>>>
    IN
    IF nat.failAt = "zpaq_compressor_new"
    THEN NewRet(FALSE, l1, AfterNative(slot, nat.wr), Ffi(MsgCompressorNew))
    ELSE
    LET l2 == l1 \o <<<<"alloc", "compressor">>, <<"alloc", "reader_ctx">>,
                      <<"alloc", "writer_ctx">>,
                      <<"native", "zpaq_reader_new">>>>
    IN
    IF nat.failAt = "zpaq_reader_new"
    THEN NewRet(FALSE, l2 \o UnwindReaderNull, AfterNative(slot, nat.wr),
                Ffi(MsgReaderNew))
    ELSE
    LET l3 == l2 \o <<<<"alloc", "reader">>, <<"native", "zpaq_writer_new">>>>
    IN
    IF nat.failAt = "zpaq_writer_new"
    THEN NewRet(FALSE, l3 \o UnwindWriterNull, AfterNative(slot, nat.wr),
                Ffi(MsgWriterNew))
    ELSE
    LET l4 == l3 \o <<<<"alloc", "writer">>,
                      <<"native", "zpaq_compressor_set_input">>>>
    IN
    IF nat.failAt = "zpaq_compressor_set_output" THEN NewFail(l4, slot, nat)
    ELSE
    LET l5 == l4 \o <<<<"native", "zpaq_compressor_set_output">>>>
    IN
    IF nat.failAt = "zpaq_compressor_set_input" THEN NewFail(l5, slot, nat)
    ELSE
    LET l6 == l5 \o <<<<"native", "zpaq_compressor_write_tag">>>>
    IN
    IF nat.failAt = "zpaq_compressor_write_tag" THEN NewFail(l6, slot, nat)
    ELSE
    IF level = None /\ HasNul(method_trim)
    THEN NewRet(FALSE, l6 \o UnwindNulMethod, slot, NulInString)
    ELSE
    LET l7 == l6 \o <<<<"native",
                        IF level # None
                        THEN "zpaq_compressor_start_block_level"
                        ELSE "zpaq_compressor_start_block_method">>>>
    IN
    IF nat.failAt = "start_block" THEN NewFail(l7, slot, nat)
    ELSE
    LET l8 == l7 \o <<StartSegment(None, None)>>
    IN
    IF nat.failAt = "zpaq_compressor_start_segment" THEN NewFail(l8, slot, nat)
    ELSE NewRet(TRUE, l8, slot, Ok)

StreamingCompressor_new(slot, method, nat) ==
    LET method_trim == trim(method)
        numeric == parse_i32(method_trim)
        level == LevelOf(numeric)
    IN
    IF method_trim = <<>> THEN NewRet(FALSE, <<>>, slot, Ffi(MsgEmptyMethod))
    ELSE IF numeric # None /\ level = None
    THEN NewRet(FALSE, <<>>, slot, Ffi(MsgLevels))
    ELSE
    LET l1 == <<<<"native", "zpaq_compressor_new">>>>
    IN
    IF nat.failAt = "zpaq_compressor_new"
    THEN NewRet(FALSE, l1, AfterNative(slot, nat.wr), Ffi(MsgCompressorNew))
    ELSE
    LET l2 == l1 \o <<<<"alloc", "compressor">>, <<"alloc", "reader_ctx">>,
                      <<"alloc", "writer_ctx">>,
                      <<"native", "zpaq_reader_new">>>>
    IN
    IF nat.failAt = "zpaq_reader_new"
    THEN NewRet(FALSE, l2 \o UnwindReaderNull, AfterNative(slot, nat.wr),
                Ffi(MsgReaderNew))
    ELSE
    LET l3 == l2 \o <<<<"alloc", "reader">>, <<"native", "zpaq_writer_new">>>>
    IN
    IF nat.failAt = "zpaq_writer_new"
    THEN NewRet(FALSE, l3 \o UnwindWriterNull, AfterNative(slot, nat.wr),
                Ffi(MsgWriterNew))
    ELSE
    LET l4 == l3 \o <<<<"alloc", "writer">>,
                      <<"native", "zpaq_compressor_set_output">>>>
    IN
    IF nat.failAt = "zpaq_compressor_set_output" THEN NewFail(l4, slot, nat)
    ELSE
    LET l5 == l4 \o <<<<"native", "zpaq_compressor_set_input">>>>
    IN
    IF nat.failAt = "zpaq_compressor_set_input" THEN NewFail(l5, slot, nat)
    ELSE
    LET l6 == l5 \o <<<<"native", "zpaq_compressor_write_tag">>>>
    IN
    IF nat.failAt = "zpaq_compressor_write_tag" THEN NewFail(l6, slot, nat)
    ELSE
    IF level = None /\ HasNul(method_trim)
    THEN NewRet(FALSE, l6 \o UnwindNulMethod, slot, NulInString)
    ELSE
    LET l7 == l6 \o <<<<"native",
                        IF level # None
                        THEN "zpaq_compressor_start_block_level"
                        ELSE "zpaq_compressor_start_block_method">>>>
    IN
    IF nat.failAt = "start_block" THEN NewFail(l7, slot, nat)
    ELSE
    LET l8 == l7 \o <<StartSegment(None, None)>>
    IN
    IF nat.failAt = "zpaq_compressor_start_segment" THEN NewFail(l8, slot, nat)
    ELSE NewRet(TRUE, l8, slot, Ok)

(***************************** push and drop ********************************)
\* StreamReader::read(out) with a buffer of capacity n: pop up to n bytes
\* from the front of the queue.
RECURSIVE StreamReader_read_loop(_, _, _)
StreamReader_read_loop(buf, out, cap) ==
    IF Len(out) < cap /\ buf # <<>>
    THEN StreamReader_read_loop(Tail(buf), Append(out, Head(buf)), cap)
    ELSE [n |-> Len(out), out |-> out, queue |-> buf]

\* A read that pops from the back of the queue.
StreamReader_read_PopBack(queue, n) ==
    LET k == IF Len(queue) < n THEN Len(queue) ELSE n
    IN  [n |-> k,
         out |-> [i \in 1..k |-> queue[Len(queue) + 1 - i]],
         queue |-> SubSeq(queue, 1, Len(queue) - k)]

\* A read that copies the front of the queue and removes nothing.
StreamReader_read_Peek(queue, n) ==
    LET k == IF Len(queue) < n THEN Len(queue) ELSE n
    IN  [n |-> k, out |-> SubSeq(queue, 1, k), queue |-> queue]

StreamReader_read(queue, n) == StreamReader_read_loop(queue, <<>>, n)

\* The queue after the trampolines cbs[i..] of one native compress call: a
\* trampoline on the reader context is read_cb on the session's StreamReader
\* with capacity cap; one on the writer context is put_cb / write_cb on its
\* CountingWriter (whose count nothing reads back).
RECURSIVE RunCbs(_, _, _, _)
RunCbs(cbs, i, queue, cap) ==
    IF i > Len(cbs) THEN queue
    ELSE IF cbs[i] = "reader_ctx"
         THEN RunCbs(cbs, i + 1, StreamReader_read(queue, cap).queue, cap)
         ELSE RunCbs(cbs, i + 1, queue, cap)

ReadCaps == {1, 2}

\* Outcomes of zpaq_compressor_compress(c, 1): return code, error-slot
\* write, trampolines run, capacity of the buffer handed to read_cb.
PushOutcomes(writes) ==
    {[rc |-> -1, wr |-> w, cbs |-> c, cap |-> k] :
        w \in writes, c \in BoundedSeq(CtxNames, MaxCb),
        k \in ReadCaps}
    \cup
    {[rc |-> v, wr |-> None, cbs |-> c, cap |-> k] :
        v \in {0, 1}, c \in BoundedSeq(CtxNames, MaxCb), k \in ReadCaps}

\* zpaq_compressor_compress(c, n) and the trampolines it runs.
Compress(n, cbs) ==
    <<<<"native", "zpaq_compressor_compress", n>>>>
        \o [i \in DOMAIN cbs |-> <<"tramp", cbs[i]>>]

\* A push that takes every non-zero return for a failure.
StreamingCompressor_push_ErrOnNonZero(queue, slot, b, nat) ==
    LET q1 == Append(queue, b)
        log == Compress(1, nat.cbs)
        q2 == RunCbs(nat.cbs, 1, q1, nat.cap)
    IN  IF nat.rc # 0
        THEN LET s1 == AfterNative(slot, nat.wr)
             IN  [log |-> log \o <<<<"errread", "StreamingCompressor::push">>>>,
                  slot |-> s1, result |-> err_from_last(s1), queue |-> q2]
        ELSE [log |-> log, slot |-> slot, result |-> Ok, queue |-> q2]

\* A push that reports success whatever the native call returned.
StreamingCompressor_push_IgnoresRc(queue, slot, b, nat) ==
    LET q1 == Append(queue, b)
        log == Compress(1, nat.cbs)
        q2 == RunCbs(nat.cbs, 1, q1, nat.cap)
    IN  [log |-> log, slot |-> slot, result |-> Ok, queue |-> q2]

\* push(b): enqueue b, call the native compress with count 1; a negative
\* return is the channel's error.
StreamingCompressor_push(queue, slot, b, nat) ==
    LET q1 == Append(queue, b)
        log == Compress(1, nat.cbs)
        q2 == RunCbs(nat.cbs, 1, q1, nat.cap)
    IN  IF nat.rc < 0
        THEN LET s1 == AfterNative(slot, nat.wr)
             IN  [log |-> log \o <<<<"errread", "StreamingCompressor::push">>>>,
                  slot |-> s1, result |-> err_from_last(s1), queue |-> q2]
        ELSE [log |-> log, slot |-> slot, result |-> Ok, queue |-> q2]

\* A bits() that reports how many bytes wait in the session's queue.
StreamingCompressor_bits_Queued(s) == Len(s.queue)

\* bits(): the value zpaq_compressor_get_bits gives for the session's
\* compressor handle.
StreamingCompressor_bits(s) == s.bits

\* A drop that forgets the native reader handle.
StreamingCompressor_drop_NoReader ==
    <<<<"free", "writer">>, <<"free", "compressor">>,
      <<"free", "reader_ctx">>, <<"free", "writer_ctx">>>>

\* Drop for StreamingCompressor.
\* A drop that destroys the engine before the writer and reader handles.
StreamingCompressor_drop_EngineFirst ==
    <<<<"free", "compressor">>, <<"free", "writer">>, <<"free", "reader">>,
      <<"free", "reader_ctx">>, <<"free", "writer_ctx">>>>

StreamingCompressor_drop ==
    <<<<"free", "writer">>, <<"free", "reader">>, <<"free", "compressor">>,
      <<"free", "reader_ctx">>, <<"free", "writer_ctx">>>>

(***************************** actions: sessions ****************************)
SessionIds == 1..MaxSessions

\* A session: its status, the bytes queued in its StreamReader, the
\* resources it owns, the bit counter of its native compressor, and the value
\* bits() returned last (as an Option).
NoSession ==
    [status |-> "none", queue |-> <<>>, res |-> NoRes, bits |-> 0,
     seen |-> None]

\* Method strings for sessions: levels 1 and 4, an explicit method, an
\* explicit method with a NUL byte.
StreamMethods == {<<49>>, <<52>>, <<120>>, <<120, 0>>}

\* StreamingCompressor::new(m) into a free slot.
NewSession(ids, methods, writes) ==
    \E i \in ids, m \in methods, nat \in NewOutcomes(writes) :
      LET r == StreamingCompressor_new(errSlot, m, nat)
      IN  /\ last.op = "idle"
          /\ sess[i].status # "ready"
          /\ errSlot' = r.slot
          /\ liveNative' = liveNative + LiveDelta(r.log)
          /\ IF r.ok
             THEN /\ sess' = [sess EXCEPT ![i] =
                        [status |-> "ready", queue |-> <<>>,
                         res |-> ResAfter(NoRes, r.log), bits |-> 0,
                         seen |-> None]]
                  /\ leakedNative' = leakedNative
             ELSE /\ sess' = sess
                  /\ leakedNative' = leakedNative + LiveDelta(r.log)
                  /\ leakedNative' <= MaxLeak
          /\ last' = MkLast("new", i, <<Some(m)>>, NoRes, nat, r)
          /\ UNCHANGED <<outSlot, errOutSlot, held, cw, thr, heap, task>>

\* push(b) on a ready session; the native compress call advances the
\* compressor's bit counter by one of incs.
PushWith(bytes, outcomes, incs) ==
    \E i \in SessionIds, b \in bytes, nat \in outcomes, d \in incs :
      LET r == StreamingCompressor_push(sess[i].queue, errSlot, b, nat)
      IN  /\ last.op = "idle"
          /\ sess[i].status = "ready"
          /\ Len(sess[i].queue) < MaxPush
          /\ sess[i].bits + d <= MaxBits
          /\ errSlot' = r.slot
          /\ sess' = [sess EXCEPT ![i].queue = r.queue,
                                  ![i].res = ResAfter(sess[i].res, r.log),
                                  ![i].bits = @ + d]
          /\ liveNative' = liveNative + LiveDelta(r.log)
          /\ last' = [MkLast("push", i, <<>>, sess[i].res, nat, r)
                      EXCEPT !.value = [b |-> b, before |-> sess[i].queue,
                                        after |-> r.queue]]
          /\ UNCHANGED <<outSlot, errOutSlot, leakedNative, held, cw,
                   thr, heap, task>>

\* push on every outcome of the native call.
PushByte(bytes, writes, incs) == PushWith(bytes, PushOutcomes(writes), incs)

\* bits() on a ready session.
ReadBits ==
    \E i \in SessionIds :
      \E v \in {StreamingCompressor_bits(sess[i])} :
          /\ last.op = "idle"
          /\ sess[i].status = "ready"
          /\ sess' = [sess EXCEPT ![i].seen = Some(v)]
          /\ last' = [MkLast("bits", i, <<>>, sess[i].res,
                             [seen |-> sess[i].seen],
                             Ret(NativeCall("zpaq_compressor_get_bits", <<>>),
                                 errSlot, Ok))
                      EXCEPT !.value = Some(v)]
          /\ UNCHANGED <<errSlot, outSlot, errOutSlot, liveNative,
                         leakedNative, held, cw, thr,
                   heap, task>>

DropSession ==
    \E i \in SessionIds :
      LET r == Ret(StreamingCompressor_drop, errSlot, Ok)
      IN  /\ last.op = "idle"
          /\ sess[i].status = "ready"
          /\ sess' = [sess EXCEPT ![i].status = "dropped",
                                  ![i].res = ResAfter(sess[i].res, r.log)]
          /\ liveNative' = liveNative + LiveDelta(r.log)
          /\ last' = MkLast("drop", i, <<>>, sess[i].res, <<>>, r)
          /\ UNCHANGED <<errSlot, outSlot, errOutSlot, leakedNative, held, cw,
                   thr, heap, task>>

\* The caller takes the result of the call that has just returned.
Consume ==
    /\ last.op # "idle"
    /\ last' = IdleLast
    /\ UNCHANGED <<errSlot, outSlot, errOutSlot, sess, liveNative,
                   leakedNative, held, cw, thr,
                   heap, task>>

(***************************** CountingWriter *******************************)
\* A u64 is four 16-bit limbs, least significant first.
Limb == 65536
U64Limbs == 4
MaxWrites == 4      \* write calls made on one CountingWriter

U64(n) == <<n % Limb, (n \div Limb) % Limb, 0, 0>>
\* isize::MAX, the longest slice there is.
ISizeMax == <<65535, 65535, 65535, 32767>>

\* Carry into limb i of a + b.
RECURSIVE CarryInto(_, _, _)
CarryInto(a, b, i) ==
    IF i = 1 THEN 0
    ELSE (a[i - 1] + b[i - 1] + CarryInto(a, b, i - 1)) \div Limb

\* a + b modulo 2^(16 * Len(a)).
LimbSum(a, b) ==
    [i \in DOMAIN a |-> (a[i] + b[i] + CarryInto(a, b, i)) % Limb]

\* u64::wrapping_add
u64_wrapping_add(a, b) == LimbSum(a, b)

\* u64::checked_add: None when the sum does not fit.
u64_checked_add(a, b) ==
    IF CarryInto(a, b, U64Limbs + 1) = 1 THEN None ELSE Some(LimbSum(a, b))

\* "byte counter overflow"
ByteCounterOverflow ==
    <<98, 121, 116, 101, 32, 99, 111, 117, 110, 116, 101, 114, 32,
      111, 118, 101, 114, 102, 108, 111, 119>>
IoOther(m) == [kind |-> "Io", msg |-> m]

\* CountingWriter::default()
CountingWriter_default == [bytes |-> U64(0)]

\* CountingWriter::bytes_written
CountingWriter_bytes_written(w) == w.bytes

CountingWriter_write_Wrapping(w, len) ==
    [w |-> [bytes |-> u64_wrapping_add(w.bytes, len)], result |-> Ok,
     value |-> Some(len)]

\* CountingWriter::write on a buffer of len bytes: the new writer, the
\* result and the count reported as written.  On overflow `?` returns
\* before the assignment to self.bytes.
CountingWriter_write(w, len) ==
    Bind(u64_checked_add(w.bytes, len), LAMBDA s :
        IF s = None
        THEN [w |-> w, result |-> IoOther(ByteCounterOverflow),
              value |-> None]
        ELSE [w |-> [bytes |-> s[1]], result |-> Ok, value |-> Some(len)])

CountingWriter_flush_Reset(w) ==
    [w |-> CountingWriter_default, result |-> Ok, value |-> None]

\* CountingWriter::flush
CountingWriter_flush(w) == [w |-> w, result |-> Ok, value |-> None]

\* The writer with the lengths of the writes that returned Ok and the number
\* of write calls made.
NoWrites == [w |-> CountingWriter_default, okLens |-> <<>>, calls |-> 0]

(***************************** concurrent callers ***************************)
MaxRaceOps == 2     \* operations one caller runs, one after the other

\* Two callers, each on a thread of its own with its own reader.
Callers == {1, 2}

\* A caller: where it stands inside compress_size_stream, what its own native
\* call left in the error slot (an Option, None: nothing), the length it
\* read, its result (an Option), how many operations it has finished, and
\* whether another caller touched the error slot since this caller's clear.
NoCaller ==
    [pc |-> "idle", own |-> None, len |-> 0, result |-> None, ops |-> 0,
     crossed |-> FALSE]

\* What the native call of caller t reports when it fails: "A" for the
\* first caller, "BB" for the second.
CallerText(t) == [i \in 1..t |-> 64 + t]

\* zpaq_last_error_len and zpaq_last_error_copy on the slot as it is at the
\* moment of the call: the copy fills at most n bytes.
zpaq_last_error_len(slot) == Len(slot)
zpaq_last_error_copy(slot, n) ==
    SubSeq(slot, 1, IF Len(slot) < n THEN Len(slot) ELSE n)

err_from_copied_Unknown(buf) == Ffi(UnknownError)

\* The tail of last_error_string and err_from_last, once the buffer has been
\* filled and truncated to what was copied.
err_from_copied(buf) ==
    Bind(from_utf8_ok(buf), LAMBDA str :
        IF str # None THEN Ffi(str[1]) ELSE Ffi(UnknownError))

\* Caller t has touched the error slot: every other caller between its clear
\* and the end of its read has been crossed.
Crossing(t) ==
    [u \in Callers |->
        IF u # t /\ thr[u].pc \in {"cleared", "failed", "haveLen"}
        THEN [thr[u] EXCEPT !.crossed = TRUE] ELSE thr[u]]

(***************************** objects and their owners *********************)
MaxAddr == 12       \* addresses the allocators hand out
MaxTaskOps == 2     \* calls one thread makes, one after the other

Addrs == 1..MaxAddr

\* An object at an address: a native handle or a boxed context, the thread
\* that made it, and for a reader or writer handle the address of the
\* context registered with it (0: none).
NoObject == [live |-> FALSE, kind |-> "none", owner |-> 0, ctx |-> 0]

\* A thread: the call it is in ("idle": none), the events of that call still
\* to happen, whether its locals survive the return (the fields of a
\* session), the addresses it holds by name (0: none), whether it holds a
\* session, the calls it has made, and whether everything it has touched or
\* freed so far was a live object of its own.
NoLoc == [n \in ResNames |-> 0]
NoTask ==
    [op |-> "idle", todo |-> <<>>, keep |-> FALSE, loc |-> NoLoc,
     ready |-> FALSE, ops |-> 0, sound |-> TRUE]

CtxOf(h) == IF h = "reader" THEN "reader_ctx" ELSE "writer_ctx"

\* The events of a log that make, use or release an object.
IsHeapEvent(e) == e[1] \in {"alloc", "free", "tramp"}
HeapEvents(log) == SelectSeq(log, IsHeapEvent)

\* Box::into_raw and the native constructors return an address that holds
\* no live object: the lowest free one of the thread's own arena (the odd
\* addresses for one thread, the even ones for the other), and the lowest
\* free one of all when that arena is full.
FreeIn(S) == {a \in S : ~heap[a].live}
Arena(t) == {a \in Addrs : a % 2 = t % 2}
Lowest(S) == CHOOSE a \in S : \A b \in S : a <= b
FreshAddr(t) ==
    IF FreeIn(Arena(t)) # {} THEN Lowest(FreeIn(Arena(t)))
    ELSE Lowest(FreeIn(Addrs))

\* The context a trampoline runs on: the one registered with the handle the
\* thread handed to the native call.
TrampCtx(t, c) ==
    IF task[t].loc[HandleOf(c)] = 0 THEN 0
    ELSE heap[task[t].loc[HandleOf(c)]].ctx

\* Address a is a live object made by thread t.
OwnLive(t, a) == a # 0 /\ heap[a].live /\ heap[a].owner = t

(***************************** specifications *******************************)
\* The caller holds nothing yet.
NoHeld == [x |-> <<>>, method |-> <<49>>, c |-> <<>>, d |-> <<>>, sz |-> <<>>]

Init ==
    /\ errSlot = <<>>
    /\ outSlot = <<>>
    /\ errOutSlot = <<>>
    /\ sess = [i \in SessionIds |-> NoSession]
    /\ liveNative = 0
    /\ leakedNative = 0
    /\ held = NoHeld
    /\ cw = NoWrites
    /\ thr = [t \in Callers |-> NoCaller]
    /\ heap = [a \in Addrs |-> NoObject]
    /\ task = [t \in Callers |-> NoTask]
    /\ last = IdleLast

\* The one-shot operations and the archive commands.
Next ==
    \/ CompressStream
    \/ DecompressStream
    \/ CompressSizeStream
    \/ CompressSizeStreamParallel
    \/ DecompressSizeStream
    \/ ZpaqAddArchiveSizeFile
    \/ ZpaqCommand
    \/ ZpaqAdd
    \/ ZpaqExtract
    \/ ZpaqList
    \/ Consume

Spec == Init /\ [][Next]_vars

\* Sessions, next to a one-shot operation that builds both bridges.
StreamWrites == {None, Some(<<101>>)}
NewStream == NewSession(SessionIds, StreamMethods, StreamWrites)
\* No operation of this specification reads the bit counter: it stays put.
PushStream == PushByte({65}, StreamWrites, {0})

NextStream ==
    \/ NewStream
    \/ PushStream
    \/ DropSession
    \/ DecompressStream
    \/ Consume

SpecStream == Init /\ [][NextStream]_vars

\* StreamingCompressor::new over the method strings.
MethodAlphabet == {32, 43, 45, 48, 49, 52, 120}
DigitStrings ==
    {[i \in 1..n |-> d] : n \in 1..MaxDigits, d \in {49, 50, 57}}
MethodStrs == BoundedSeq(MethodAlphabet, MaxStrLen) \cup DigitStrings
MethodWrites == {None, Some(<<101>>)}

NewMethod == NewSession({1}, MethodStrs, MethodWrites)

NextMethod ==
    \/ NewMethod
    \/ DropSession
    \/ Consume

SpecMethod == Init /\ [][NextMethod]_vars

\* One session, pushed to and asked for its bit count.
BitIncs == {0, 1, 2}
NewBits == NewSession({1}, {<<49>>}, {None})
PushBits == PushByte({65, 66}, StreamWrites, BitIncs)

NextBits ==
    \/ NewBits
    \/ PushBits
    \/ ReadBits
    \/ DropSession
    \/ Consume

SpecBits == Init /\ [][NextBits]_vars

\* Sessions made with every kind of method, pushed to, asked for their bit
\* count and dropped.
NextProtocol ==
    \/ NewStream
    \/ PushStream
    \/ ReadBits
    \/ DropSession
    \/ Consume

SpecProtocol == Init /\ [][NextProtocol]_vars

\* The archive commands on argument lists long enough to show their order.
ArgvStrs == {<<120>>, <<121>>, <<120, 0>>}
ArgvThreads == {0, 7, 12, 100}
ArgvOutcomes ==
    {[rc |-> 0, wr |-> None, out |-> o, eout |-> None] : o \in OutWrites}
    \cup {[rc |-> 1, wr |-> w, out |-> o, eout |-> None] :
             w \in {None, Some(<<101>>)}, o \in OutWrites}

CommandArgv ==
    \E args \in BoundedSeq(ArgvStrs, 2), nat \in ArgvOutcomes :
        Command("zpaq_command", [i \in DOMAIN args |-> Some(args[i])],
                nat, zpaq_command(args, nat))

AddArgv ==
    \E a \in {<<120>>}, ins \in BoundedSeq(ArgvStrs, 2),
       m \in {<<49>>, <<120, 0>>}, t \in ArgvThreads, nat \in ArgvOutcomes :
        Command("zpaq_add",
                <<Some(a)>> \o [i \in DOMAIN ins |-> Some(ins[i])]
                    \o <<Some(m)>>,
                nat @@ [threads |-> t],
                zpaq_add(<<errSlot, outSlot, errOutSlot>>, a, ins, m, t, nat))

NextArgv ==
    \/ CommandArgv
    \/ AddArgv
    \/ Consume

SpecArgv == Init /\ [][NextArgv]_vars

\* Sessions on an engine that reads the byte it is offered on every call.
ConsumingOutcomes ==
    {o \in PushOutcomes(StreamWrites) :
        \E i \in DOMAIN o.cbs : o.cbs[i] = "reader_ctx"}
PushDrained == PushWith({65, 66}, ConsumingOutcomes, BitIncs)

NextDrain ==
    \/ NewStream
    \/ PushDrained
    \/ DropSession
    \/ Consume

SpecDrain == Init /\ [][NextDrain]_vars

(***************************** caller readers and writers *******************)
\* A reader the caller supplies: a std::io::Cursor over a byte slice, or a
\* reader whose every read fails with the error text msg.
Cursor(data) == [kind |-> "cursor", data |-> data, pos |-> 0, msg |-> <<>>]
FailingReader(m) == [kind |-> "failing", data |-> <<>>, pos |-> 0, msg |-> m]
\* A reader that yields at most one byte per read call.
ShortReader(data) == [kind |-> "short", data |-> data, pos |-> 0, msg |-> <<>>]

\* reader.read(slice) with a slice of length cap.
Reader_read(r, cap) ==
    IF r.kind = "failing"
    THEN [ok |-> FALSE, n |-> 0, bytes |-> <<>>, reader |-> r, msg |-> r.msg]
    ELSE LET left == Len(r.data) - r.pos
             want == IF r.kind = "short" /\ cap > 1 THEN 1 ELSE cap
             n == IF left < want THEN left ELSE want
         IN  [ok |-> TRUE, n |-> n,
              bytes |-> SubSeq(r.data, r.pos + 1, r.pos + n),
              reader |-> [r EXCEPT !.pos = @ + n], msg |-> <<>>]

\* A writer the caller supplies: a Vec<u8>, or a writer whose every write
\* fails with the error text msg.
VecWriter == [kind |-> "vec", buf |-> <<>>, msg |-> <<>>]
FailingWriter(m) == [kind |-> "failing", buf |-> <<>>, msg |-> m]

\* A writer that takes at most `per` bytes per write call and `room` bytes
\* in all; once full, write returns Ok(0) (full = "zero") or fails with msg.
BoundedWriter(per, room, full, m) ==
    [kind |-> "bounded", buf |-> <<>>, msg |-> m, per |-> per, room |-> room,
     full |-> full]

\* "failed to write whole buffer", the text of write_all's WriteZero error.
WriteZero ==
    <<102, 97, 105, 108, 101, 100, 32, 116, 111, 32, 119, 114, 105, 116,
      101, 32, 119, 104, 111, 108, 101, 32, 98, 117, 102, 102, 101, 114>>

Min(a, b) == IF a < b THEN a ELSE b

\* writer.write(bytes) with a non-empty buffer: how many bytes were taken.
Writer_write(w, bytes) ==
    IF w.kind = "failing"
    THEN [ok |-> FALSE, n |-> 0, writer |-> w, msg |-> w.msg]
    ELSE IF w.kind = "bounded"
    THEN IF w.room = 0
         THEN [ok |-> w.full = "zero", n |-> 0, writer |-> w, msg |-> w.msg]
         ELSE Bind(Min(Min(w.per, w.room), Len(bytes)), LAMBDA n :
                  [ok |-> TRUE, n |-> n,
                   writer |-> [w EXCEPT !.buf = @ \o SubSeq(bytes, 1, n),
                                        !.room = @ - n],
                   msg |-> <<>>])
    ELSE [ok |-> TRUE, n |-> Len(bytes),
          writer |-> [w EXCEPT !.buf = @ \o bytes], msg |-> <<>>]

\* writer.write_all(bytes): write until the buffer is empty; a write that
\* takes nothing is a WriteZero error; an empty buffer never reaches write().
RECURSIVE Writer_write_all(_, _)
Writer_write_all(w, bytes) ==
    IF bytes = <<>> THEN [ok |-> TRUE, writer |-> w, msg |-> <<>>]
    ELSE Bind(Writer_write(w, bytes), LAMBDA a :
        IF ~a.ok THEN [ok |-> FALSE, writer |-> a.writer, msg |-> a.msg]
        ELSE IF a.n = 0
        THEN [ok |-> FALSE, writer |-> a.writer, msg |-> WriteZero]
        ELSE Writer_write_all(a.writer,
                              SubSeq(bytes, a.n + 1, Len(bytes))))

(***************************** trampolines **********************************)
\* set_callback_error(msg): the text goes to the error slot unless it holds
\* a NUL byte, in which case nothing is stored.
set_callback_error(slot, msg) == IF HasNul(msg) THEN slot ELSE msg

\* A read trampoline that reports a failing read as end of input.
read_cb_ErrorAsEof(r, cap, slot) ==
    Bind(Reader_read(r, cap), LAMBDA a :
        [ret |-> a.n, bytes |-> a.bytes, reader |-> a.reader, slot |-> slot])

\* A read trampoline that reads again when the first read left room.
read_cb_ReadsTwice(r, cap, slot) ==
    Bind(Reader_read(r, cap), LAMBDA a :
        IF ~a.ok
        THEN [ret |-> RUST_CALLBACK_ERROR, bytes |-> <<>>,
              reader |-> a.reader, slot |-> set_callback_error(slot, a.msg)]
        ELSE IF a.n = cap
        THEN [ret |-> a.n, bytes |-> a.bytes, reader |-> a.reader,
              slot |-> slot]
        ELSE Bind(Reader_read(a.reader, cap - a.n), LAMBDA b :
                 [ret |-> a.n + b.n, bytes |-> a.bytes \o b.bytes,
                  reader |-> b.reader, slot |-> slot]))

\* read_cb: the byte count on Ok; on Err the error text is stored and the
\* sentinel returned.
read_cb(r, cap, slot) ==
    Bind(Reader_read(r, cap), LAMBDA a :
        IF a.ok
        THEN [ret |-> a.n, bytes |-> a.bytes, reader |-> a.reader,
              slot |-> slot]
        ELSE [ret |-> RUST_CALLBACK_ERROR, bytes |-> <<>>,
              reader |-> a.reader, slot |-> set_callback_error(slot, a.msg)])

\* A write trampoline that hands the writer only the first byte it is given.
write_cb_FirstByteOnly(w, bytes, slot) ==
    Bind(Writer_write_all(w, SubSeq(bytes, 1, 1)), LAMBDA a :
        IF a.ok THEN [ret |-> 0, writer |-> a.writer, slot |-> slot]
        ELSE [ret |-> RUST_CALLBACK_ERROR, writer |-> a.writer,
              slot |-> set_callback_error(slot, a.msg)])

\* A write trampoline that calls write once and reports success whatever
\* part of the buffer was taken.
write_cb_SingleWrite(w, bytes, slot) ==
    IF bytes = <<>> THEN [ret |-> 0, writer |-> w, slot |-> slot]
    ELSE Bind(Writer_write(w, bytes), LAMBDA a :
        IF a.ok THEN [ret |-> 0, writer |-> a.writer, slot |-> slot]
        ELSE [ret |-> RUST_CALLBACK_ERROR, writer |-> a.writer,
              slot |-> set_callback_error(slot, a.msg)])

\* write_cb: write_all of the n bytes handed over.
write_cb(w, bytes, slot) ==
    Bind(Writer_write_all(w, bytes), LAMBDA a :
        IF a.ok THEN [ret |-> 0, writer |-> a.writer, slot |-> slot]
        ELSE [ret |-> RUST_CALLBACK_ERROR, writer |-> a.writer,
              slot |-> set_callback_error(slot, a.msg)])

\* put_cb: write_all of the one byte `c as u8`.
put_cb(w, c, slot) ==
    Bind(Writer_write_all(w, <<c % 256>>), LAMBDA a :
        IF a.ok THEN [ret |-> 0, writer |-> a.writer, slot |-> slot]
        ELSE [ret |-> RUST_CALLBACK_ERROR, writer |-> a.writer,
              slot |-> set_callback_error(slot, a.msg)])

(***************************** native codec *********************************)
\* "callback failed"
CallbackFailed ==
    <<99, 97, 108, 108, 98, 97, 99, 107, 32, 102, 97, 105, 108, 101, 100>>

\* "bad archive"
BadArchive == <<98, 97, 100, 32, 97, 114, 99, 104, 105, 118, 101>>

\* The error slot after the native side has seen a trampoline return the
\* sentinel: the marker, behind the text the trampoline stored when the
\* native side keeps that text.
AbortText(slot, keep) ==
    IF keep /\ slot # <<>> THEN slot \o <<58, 32>> \o CallbackFailed
    ELSE CallbackFailed

\* The compressed stream of x under method m: a tag, the method byte, the
\* bytes of x shifted by the method byte, an end mark.
Enc(x, m) ==
    <<122, m[1]>> \o [i \in 1..Len(x) |-> (x[i] + m[1]) % 256] \o <<255>>

\* The bytes a compressed stream decodes to, when it is well formed.
Dec(c) ==
    IF Len(c) >= 3 /\ c[1] = 122 /\ c[Len(c)] = 255
    THEN [ok |-> TRUE,
          data |-> [i \in 1..(Len(c) - 3) |-> (c[i + 2] + 256 - c[2]) % 256]]
    ELSE [ok |-> FALSE, data |-> <<>>]

\* The native side reads its whole input through the read trampoline, cap
\* bytes at a time, until the trampoline returns 0 or the sentinel.
RECURSIVE ReadAll(_, _, _, _, _)
ReadAll(reader, cap, slot, acc, calls) ==
    Bind(read_cb(reader, cap, slot), LAMBDA r :
        IF r.ret < 0
        THEN [ok |-> FALSE, data |-> acc, slot |-> r.slot, calls |-> calls + 1]
        ELSE IF r.ret = 0
        THEN [ok |-> TRUE, data |-> acc, slot |-> r.slot, calls |-> calls + 1]
        ELSE ReadAll(r.reader, cap, r.slot, acc \o r.bytes, calls + 1))

\* The native side emits its output through the put trampoline (chunk = 0)
\* or through the write trampoline, chunk bytes at a time, and stops at the
\* first sentinel.
RECURSIVE WriteAll(_, _, _, _, _)
WriteAll(writer, bytes, chunk, slot, calls) ==
    IF bytes = <<>>
    THEN [ok |-> TRUE, writer |-> writer, slot |-> slot, calls |-> calls]
    ELSE LET k == IF chunk = 0 THEN 1
                  ELSE IF Len(bytes) < chunk THEN Len(bytes) ELSE chunk
         IN  Bind(IF chunk = 0 THEN put_cb(writer, bytes[1], slot)
                  ELSE write_cb(writer, SubSeq(bytes, 1, k), slot),
                  LAMBDA w :
             IF w.ret # 0
             THEN [ok |-> FALSE, writer |-> w.writer, slot |-> w.slot,
                   calls |-> calls + 1]
             ELSE WriteAll(w.writer, SubSeq(bytes, k + 1, Len(bytes)), chunk,
                           w.slot, calls + 1))

Tramps(ctx, n) == [i \in 1..n |-> ctx]

\* How the native side drives the trampolines during one call.
IoModes == [cap : {1, 2}, chunk : {0, 2}, keep : BOOLEAN]

\* One run of a native entry point f on the caller's reader and writer,
\* from an empty error slot: return code, error-slot write, trampolines
\* run, the caller's writer afterwards, the size reported through out_size.
NativeRun(f, reader, writer, method, io) ==
    LET encode == f \in {"zpaq_compress", "zpaq_compress_size",
                         "zpaq_compress_size_parallel"}
        sized == f \notin {"zpaq_compress", "zpaq_decompress"}
        base == [rnew |-> TRUE, wnew |-> TRUE, io |-> io,
                 reader |-> reader, writer |-> writer]
        Abort(slot, cbs, w) ==
            base @@ [rc |-> 1, wr |-> Some(AbortText(slot, io.keep)),
                     cbs |-> cbs, out |-> w.buf, size |-> 0]
    IN  Bind(ReadAll(reader, io.cap, <<>>, <<>>, 0), LAMBDA rd :
        IF ~rd.ok
        THEN Abort(rd.slot, Tramps("reader_ctx", rd.calls), writer)
        ELSE
        Bind(IF encode THEN [ok |-> TRUE, data |-> Enc(rd.data, method)]
             ELSE Dec(rd.data), LAMBDA payload :
        IF ~payload.ok
        THEN base @@ [rc |-> 1, wr |-> Some(BadArchive),
                      cbs |-> Tramps("reader_ctx", rd.calls),
                      out |-> writer.buf, size |-> 0]
        ELSE
        Bind(IF sized
             THEN [ok |-> TRUE, writer |-> writer, slot |-> rd.slot,
                   calls |-> 0]
             ELSE WriteAll(writer, payload.data, io.chunk, rd.slot, 0),
             LAMBDA wt :
        IF ~wt.ok
        THEN Abort(wt.slot,
                   Tramps("reader_ctx", rd.calls)
                       \o Tramps("writer_ctx", wt.calls),
                   wt.writer)
        ELSE base @@ [rc |-> 0, wr |-> None,
                      cbs |-> Tramps("reader_ctx", rd.calls)
                                \o Tramps("writer_ctx", wt.calls),
                      out |-> wt.writer.buf,
                      size |-> Len(payload.data)])))

(***************************** in-memory operations *************************)
\* The size-only entry points are given no writer.
NoWriter == [kind |-> "none", buf |-> <<>>, msg |-> <<>>]

\* What an operation that returns data gives back.
ValRet(r, nat, value) ==
    [log |-> r.log, slot |-> r.slot, result |-> r.result, env |-> nat,
     value |-> IF r.result = Ok THEN Some(value) ELSE None]

\* compress_to_vec: compress_stream from a Cursor into a fresh Vec.
compress_to_vec(slot, input, method, io) ==
    Bind(NativeRun("zpaq_compress", Cursor(input), VecWriter, method, io),
         LAMBDA nat :
        ValRet(compress_stream(slot, method, None, None, nat), nat, nat.out))

\* decompress_to_vec: decompress_stream from a Cursor into a fresh Vec.
decompress_to_vec(slot, input, io) ==
    Bind(NativeRun("zpaq_decompress", Cursor(input), VecWriter, <<>>, io),
         LAMBDA nat :
        ValRet(decompress_stream(slot, nat), nat, nat.out))

\* A compress_size that reports the length of its input.
compress_size_InputLen(slot, input, method, io) ==
    Bind(NativeRun("zpaq_compress_size", Cursor(input), NoWriter,
                         method, io),
         LAMBDA nat :
        ValRet(compress_size_stream(slot, method, None, None, nat), nat,
               Len(input)))

\* compress_size: compress_size_stream from a Cursor; the value is out_size.
compress_size(slot, input, method, io) ==
    Bind(NativeRun("zpaq_compress_size", Cursor(input), NoWriter,
                         method, io),
         LAMBDA nat :
        ValRet(compress_size_stream(slot, method, None, None, nat), nat,
               nat.size))

\* A compress_size_parallel that hands the native side an exhausted cursor.
compress_size_parallel_AtEnd(slot, input, method, threads, io) ==
    Bind(NativeRun("zpaq_compress_size_parallel",
                         [Cursor(input) EXCEPT !.pos = Len(input)], NoWriter,
                         method, io),
         LAMBDA nat :
        ValRet(compress_size_stream_parallel(slot, method, None, None, nat),
               nat, nat.size))

\* compress_size_parallel: compress_size_stream_parallel from a Cursor.
compress_size_parallel(slot, input, method, threads, io) ==
    Bind(NativeRun("zpaq_compress_size_parallel", Cursor(input),
                         NoWriter, method, io),
         LAMBDA nat :
        ValRet(compress_size_stream_parallel(slot, method, None, None, nat),
               nat, nat.size))

\* A decompress_size that reports the length of the archive.
decompress_size_ArchiveLen(slot, input, io) ==
    Bind(NativeRun("zpaq_decompress_size", Cursor(input), NoWriter,
                         <<>>, io),
         LAMBDA nat :
        ValRet(decompress_size_stream(slot, nat), nat, Len(input)))

\* decompress_size: decompress_size_stream from a Cursor.
decompress_size(slot, input, io) ==
    Bind(NativeRun("zpaq_decompress_size", Cursor(input), NoWriter,
                         <<>>, io),
         LAMBDA nat :
        ValRet(decompress_size_stream(slot, nat), nat, nat.size))

(***************************** actions: in-memory operations ****************)
MaxData == 2        \* length of the caller's inputs

\* The caller's inputs, the methods the codec supports, the thread counts
\* and the error texts of failing readers and writers ("boom", and a text
\* with a NUL byte).
Payloads == BoundedSeq({0, 200, 255}, MaxData)
CodecMethods == {<<49>>, <<50>>}
Threads == {0, 1, 2, 8}
FailTexts == {<<98, 111, 111, 109>>, <<98, 0>>}

\* The trampoline schedules of the calls whose callbacks all succeed.
CodecIo == {io \in IoModes : ~io.keep}

\* State change of an operation on the caller's own reader and writer.
IoCall(op, args, r) ==
    /\ last.op = "idle"
    /\ errSlot' = r.slot
    /\ liveNative' = liveNative + LiveDelta(r.log)
    /\ last' = [MkLast(op, 0, args, NoRes, r.env, r) EXCEPT !.value = r.value]
    /\ UNCHANGED <<outSlot, errOutSlot, sess, leakedNative, cw,
                   thr, heap, task>>

CompressToVec ==
    \E x \in Payloads, m \in CodecMethods, io \in CodecIo :
      \E r \in {compress_to_vec(errSlot, x, m, io)} :
          /\ IoCall("compress_to_vec", <<Some(m)>>, r)
          /\ held' = [x |-> x, method |-> m, c |-> r.value, d |-> None,
                      sz |-> None]

DecompressToVec ==
    /\ held.c # None
    /\ \E io \in CodecIo :
         \E r \in {decompress_to_vec(errSlot, held.c[1], io)} :
            /\ IoCall("decompress_to_vec", <<>>, r)
            /\ held' = [held EXCEPT !.d = r.value]

CompressSize ==
    /\ held.c # None
    /\ \E io \in CodecIo :
         \E r \in {compress_size(errSlot, held.x, held.method, io)} :
            /\ IoCall("compress_size", <<Some(held.method)>>, r)
            /\ held' = [held EXCEPT !.sz = r.value]

DecompressSize ==
    /\ held.c # None /\ held.d # None
    /\ \E io \in CodecIo :
         \E r \in {decompress_size(errSlot, held.c[1], io)} :
            /\ IoCall("decompress_size", <<>>, r)
            /\ UNCHANGED held

CompressSizeParallel ==
    /\ held.sz # None
    /\ \E t \in Threads, io \in CodecIo :
         \E r \in {compress_size_parallel(errSlot, held.x, held.method,
                                          t, io)} :
            /\ IoCall("compress_size_parallel", <<Some(held.method)>>,
                      [r EXCEPT !.env = r.env @@ [threads |-> t]])
            /\ UNCHANGED held

\* compress_size_stream on a reader that fails on every read.
CompressSizeStreamFailing ==
    \E e \in FailTexts, m \in CodecMethods, io \in IoModes :
      \E nat \in {NativeRun("zpaq_compress_size", FailingReader(e), NoWriter,
                           m, io)} :
          /\ OneShot("compress_size_stream", <<Some(m), None, None>>, nat,
                     compress_size_stream(errSlot, m, None, None, nat))

\* compress_stream on a failing reader, or on a failing writer behind a
\* reader that works.
CompressStreamFailing ==
    \E e \in FailTexts, x \in Payloads, m \in CodecMethods, io \in IoModes,
       side \in {"reader", "writer"} :
      \E nat \in {NativeRun("zpaq_compress",
                IF side = "reader" THEN FailingReader(e) ELSE Cursor(x),
                IF side = "writer" THEN FailingWriter(e) ELSE VecWriter,
                m, io)} :
          /\ OneShot("compress_stream", <<Some(m), None, None>>, nat,
                     compress_stream(errSlot, m, None, None, nat))

\* decompress_stream on a reader that fails on every read.
DecompressStreamFailing ==
    \E e \in FailTexts, io \in IoModes :
      \E nat \in {NativeRun("zpaq_decompress", FailingReader(e), VecWriter,
                           <<>>, io)} :
          /\ OneShot("decompress_stream", <<>>, nat,
                     decompress_stream(errSlot, nat))

NextIo ==
    \/ CompressToVec
    \/ DecompressToVec
    \/ CompressSize
    \/ DecompressSize
    \/ CompressSizeParallel
    \/ Consume

SpecIo == Init /\ [][NextIo]_vars

\* The one-shot operations on readers and writers that fail.
NextCallback ==
    \/ CompressSizeStreamFailing
    \/ CompressStreamFailing
    \/ DecompressStreamFailing
    \/ Consume

SpecCallback == Init /\ [][NextCallback]_vars

(***************************** actions: CountingWriter **********************)
\* Buffer lengths: empty, short, beyond 32 bits, and the longest slice.
BufLens == {U64(0), U64(1), U64(5), <<0, 0, 1, 0>>, ISizeMax}

CwLast(op, args, r) ==
    [IdleLast EXCEPT !.op = op, !.args = args, !.env = [before |-> cw.w],
                     !.result = r.result, !.value = r.value]

CwWrite ==
    /\ cw.calls < MaxWrites
    /\ \E len \in BufLens :
         \E r \in {CountingWriter_write(cw.w, len)} :
            /\ cw' = [w |-> r.w,
                      okLens |-> IF r.result = Ok
                                 THEN Append(cw.okLens, len) ELSE cw.okLens,
                      calls |-> cw.calls + 1]
            /\ last' = CwLast("write", <<len>>, r)
    /\ UNCHANGED <<errSlot, outSlot, errOutSlot, sess, liveNative,
                   leakedNative, held, thr,
                   heap, task>>

CwFlush ==
    /\ \E r \in {CountingWriter_flush(cw.w)} :
            /\ cw' = [cw EXCEPT !.w = r.w]
            /\ last' = CwLast("flush", <<>>, r)
    /\ UNCHANGED <<errSlot, outSlot, errOutSlot, sess, liveNative,
                   leakedNative, held, thr,
                   heap, task>>

NextCounting ==
    \/ CwWrite
    \/ CwFlush

SpecCounting == Init /\ [][NextCounting]_vars

(***************************** actions: concurrent callers ******************)
OnlyChannel ==
    UNCHANGED <<outSlot, errOutSlot, sess, liveNative, leakedNative, held,
                cw, last, heap, task>>

\* clear_last_error() at the head of the operation.
CallerClear(t) ==
    /\ thr[t].pc = "idle"
    /\ thr[t].ops < MaxRaceOps
    /\ errSlot' = clear_last_error
    /\ thr' = [Crossing(t) EXCEPT ![t] =
                  [pc |-> "cleared", own |-> None, len |-> 0,
                   result |-> None, ops |-> thr[t].ops, crossed |-> FALSE]]
    /\ OnlyChannel

\* The native calls of the operation: all succeed, or the first that fails
\* leaves the caller's text, or nothing, in the error slot.
CallerNative(t) ==
    /\ thr[t].pc = "cleared"
    /\ \/ /\ thr' = [thr EXCEPT ![t].pc = "done", ![t].result = Some(Ok)]
          /\ errSlot' = errSlot
       \/ \E wr \in {None, Some(CallerText(t))} :
            /\ errSlot' = AfterNative(errSlot, wr)
            /\ thr' = [(IF wr = None THEN thr ELSE Crossing(t)) EXCEPT
                          ![t].pc = "failed", ![t].own = wr]
    /\ OnlyChannel

\* last_error_string: read the length; an empty slot ends the read.
CallerReadLen(t) ==
    /\ thr[t].pc = "failed"
    /\ \E n \in {zpaq_last_error_len(errSlot)} :
         thr' = [thr EXCEPT
                    ![t].len = n,
                    ![t].pc = IF n = 0 THEN "done" ELSE "haveLen",
                    ![t].result = IF n = 0 THEN Some(Ffi(UnknownError))
                                  ELSE None]
    /\ errSlot' = errSlot
    /\ OnlyChannel

\* last_error_string: copy into the buffer of the length read, truncate,
\* decode; err_from_last wraps the outcome.
CallerCopy(t) ==
    /\ thr[t].pc = "haveLen"
    /\ \E buf \in {zpaq_last_error_copy(errSlot, thr[t].len)} :
         thr' = [thr EXCEPT ![t].pc = "done",
                            ![t].result = Some(err_from_copied(buf))]
    /\ errSlot' = errSlot
    /\ OnlyChannel

\* The operation returns; the caller may start another one.
CallerReturn(t) ==
    /\ thr[t].pc = "done"
    /\ thr' = [thr EXCEPT ![t] =
                  [NoCaller EXCEPT !.ops = thr[t].ops + 1]]
    /\ errSlot' = errSlot
    /\ OnlyChannel

NextRace ==
    \E t \in Callers :
        \/ CallerClear(t)
        \/ CallerNative(t)
        \/ CallerReadLen(t)
        \/ CallerCopy(t)
        \/ CallerReturn(t)

SpecRace == Init /\ [][NextRace]_vars

(***************************** actions: objects and their owners ************)
OnlyHeap ==
    UNCHANGED <<errSlot, outSlot, errOutSlot, sess, liveNative, leakedNative,
                held, cw, thr, last>>

\* The native outcomes of the calls the threads make; what the native side
\* writes to the error slot plays no part here.
OwnOutcomes == {o \in BridgeOutcomes(CtxNames) : o.wr = None}
OwnNewOutcomes == NewOutcomes({None})
OwnPushOutcomes == {o \in PushOutcomes({None}) : o.cap = 1}
OwnMethods == {<<49>>, <<120, 0>>}

\* Thread t enters a call whose events are those of log; keep: its locals
\* are the fields of a session that exists when the call has returned.
TaskBegin(t, op, log, keep) ==
    /\ task' = [task EXCEPT ![t] =
          IF HeapEvents(log) = <<>>
          THEN [@ EXCEPT !.ops = @ + 1, !.ready = keep,
                         !.loc = IF keep THEN @ ELSE NoLoc]
          ELSE [@ EXCEPT !.op = op, !.todo = HeapEvents(log),
                         !.keep = keep]]
    /\ heap' = heap
    /\ OnlyHeap

\* compress_stream on a reader and a writer of the thread's own.
TaskOneShot(t) ==
    /\ task[t].op = "idle" /\ ~task[t].ready /\ task[t].ops < MaxTaskOps
    /\ \E nat \in OwnOutcomes :
         \E r \in {compress_stream(<<>>, <<49>>, None, None, nat)} :
            TaskBegin(t, "compress_stream", r.log, FALSE)

\* StreamingCompressor::new: the thread's own session.
TaskNew(t) ==
    /\ task[t].op = "idle" /\ ~task[t].ready /\ task[t].ops < MaxTaskOps
    /\ \E m \in OwnMethods, nat \in OwnNewOutcomes :
         \E r \in {StreamingCompressor_new(<<>>, m, nat)} :
            TaskBegin(t, "new", r.log, r.ok)

\* push on the thread's session.
TaskPush(t) ==
    /\ task[t].op = "idle" /\ task[t].ready /\ task[t].ops < MaxTaskOps
    /\ \E nat \in OwnPushOutcomes :
         \E r \in {StreamingCompressor_push(<<>>, <<>>, 65, nat)} :
            TaskBegin(t, "push", r.log, TRUE)

\* The thread's session is dropped.
TaskDrop(t) ==
    /\ task[t].op = "idle" /\ task[t].ready
    /\ TaskBegin(t, "drop", StreamingCompressor_drop, FALSE)

\* The task after the event at the head of its todo list: its addresses are
\* loc, and `fine` tells whether the event touched a live object of its own.
TaskAfter(t, loc, fine) ==
    IF Len(task[t].todo) = 1
    THEN [op |-> "idle", todo |-> <<>>, keep |-> FALSE,
          loc |-> IF task[t].keep THEN loc ELSE NoLoc,
          ready |-> task[t].keep, ops |-> task[t].ops + 1,
          sound |-> task[t].sound /\ fine]
    ELSE [task[t] EXCEPT !.todo = Tail(@), !.loc = loc,
                         !.sound = @ /\ fine]

\* The next event of the call thread t is in.
TaskStep(t) ==
    /\ task[t].op # "idle"
    /\ \E e \in {Head(task[t].todo)} :
         \/ /\ e[1] = "alloc"
            /\ \E b \in Addrs : ~heap[b].live
            /\ \E a \in {FreshAddr(t)} :
                 /\ heap' = [heap EXCEPT ![a] =
                       [live |-> TRUE, kind |-> e[2], owner |-> t,
                        ctx |-> IF e[2] \in {"reader", "writer"}
                                THEN task[t].loc[CtxOf(e[2])] ELSE 0]]
                 /\ task' = [task EXCEPT ![t] =
                       TaskAfter(t, [task[t].loc EXCEPT ![e[2]] = a], TRUE)]
         \/ /\ e[1] = "tramp"
            /\ \E a \in {TrampCtx(t, e[2])} :
                 /\ heap' = heap
                 /\ task' = [task EXCEPT ![t] =
                       TaskAfter(t, task[t].loc,
                                 OwnLive(t, a) /\ a = task[t].loc[e[2]])]
         \/ /\ e[1] = "free"
            /\ \E a \in {task[t].loc[e[2]]} :
                 /\ heap' = IF a = 0 THEN heap
                            ELSE [heap EXCEPT ![a] = NoObject]
                 /\ task' = [task EXCEPT ![t] =
                       TaskAfter(t, [task[t].loc EXCEPT ![e[2]] = 0],
                                 OwnLive(t, a))]
    /\ OnlyHeap

NextOwn ==
    \E t \in Callers :
        \/ TaskOneShot(t)
        \/ TaskNew(t)
        \/ TaskPush(t)
        \/ TaskDrop(t)
        \/ TaskStep(t)

SpecOwn == Init /\ [][NextOwn]_vars

\* new on the first session slot, over methods that are accepted, refused
\* for their level and refused for a NUL byte.
NewFallible == NewSession({1}, StreamMethods, StreamWrites)

\* compress_stream on a writer that fails on its first write, whatever the
\* input that reaches it.
CompressStreamWriterFails ==
    \E e \in FailTexts, x \in {<<0>>, <<200, 255>>}, m \in CodecMethods,
       io \in IoModes :
      \E nat \in {NativeRun("zpaq_compress", Cursor(x), FailingWriter(e),
                           m, io)} :
          /\ OneShot("compress_stream", <<Some(m), None, None>>, nat,
                     compress_stream(errSlot, m, None, None, nat))

\* The operations that build bridges or sessions, on every outcome of their
\* native calls and on readers and writers that fail.
NextFailures ==
    \/ CompressStream
    \/ DecompressStream
    \/ CompressSizeStream
    \/ CompressSizeStreamParallel
    \/ DecompressSizeStream
    \/ ZpaqAddArchiveSizeFile
    \/ ZpaqList
    \/ NewFallible
    \/ PushStream
    \/ DropSession
    \/ CompressSizeStreamFailing
    \/ CompressStreamWriterFails
    \/ DecompressStreamFailing
    \/ Consume

SpecFailures == Init /\ [][NextFailures]_vars

(***************************** digests **************************************)
\* Outcomes of one digest computation on the native side:
\*   hnew  the native constructor returns a non-null state handle
\*   rc    return code of the result call
\*   wr    what the failing native call leaves in the error slot
HashOutcomes ==
    {[hnew |-> FALSE, rc |-> 0, wr |-> w] : w \in NativeWrites}
    \cup {[hnew |-> TRUE, rc |-> 0, wr |-> None]}
    \cup {[hnew |-> TRUE, rc |-> 1, wr |-> w] : w \in NativeWrites}

\* The events of feeding bytes to a SHA-256 state, one put per byte.
Sha256Puts(bytes) ==
    [i \in DOMAIN bytes |-> <<"native", "zpaq_sha256_put">>]

\* A sha1 that frees the native state only when the result call succeeded.
sha1_FreeOnSuccess(slot, bytes, nat) ==
    LET s0 == clear_last_error
        new == ClearErr \o <<<<"native", "zpaq_sha1_new">>>>
    IN  IF ~nat.hnew
        THEN LET s1 == AfterNative(s0, nat.wr)
             IN  Ret(new \o <<<<"errread", "sha1">>>>, s1, err_from_last(s1))
        ELSE
        LET run == new \o <<<<"alloc", "sha1">>,
                            <<"native", "zpaq_sha1_write">>,
                            <<"native", "zpaq_sha1_result">>>>
        IN  IF nat.rc = 0 THEN Ret(run \o <<<<"free", "sha1">>>>, s0, Ok)
            ELSE LET s1 == AfterNative(s0, nat.wr)
                 IN  Ret(run \o <<<<"errread", "sha1">>>>, s1,
                         err_from_last(s1))

\* sha1(bytes): clear the channel, make a native state, write the bytes in
\* one call, take the result, free the state, then look at the return code.
sha1(slot, bytes, nat) ==
    LET s0 == clear_last_error
        new == ClearErr \o <<<<"native", "zpaq_sha1_new">>>>
    IN  IF ~nat.hnew
        THEN LET s1 == AfterNative(s0, nat.wr)
             IN  Ret(new \o <<<<"errread", "sha1">>>>, s1, err_from_last(s1))
        ELSE
        LET run == new \o <<<<"alloc", "sha1">>,
                            <<"native", "zpaq_sha1_write">>,
                            <<"native", "zpaq_sha1_result">>,
                            <<"free", "sha1">>>>
        IN  IF nat.rc = 0 THEN Ret(run, s0, Ok)
            ELSE LET s1 == AfterNative(s0, nat.wr)
                 IN  Ret(run \o <<<<"errread", "sha1">>>>, s1,
                         err_from_last(s1))

\* sha256(bytes): as sha1, with the bytes put one at a time.
sha256(slot, bytes, nat) ==
    LET s0 == clear_last_error
        new == ClearErr \o <<<<"native", "zpaq_sha256_new">>>>
    IN  IF ~nat.hnew
        THEN LET s1 == AfterNative(s0, nat.wr)
             IN  Ret(new \o <<<<"errread", "sha256">>>>, s1,
                     err_from_last(s1))
        ELSE
        LET run == new \o <<<<"alloc", "sha256">>>> \o Sha256Puts(bytes)
                       \o <<<<"native", "zpaq_sha256_result">>,
                            <<"free", "sha256">>>>
        IN  IF nat.rc = 0 THEN Ret(run, s0, Ok)
            ELSE LET s1 == AfterNative(s0, nat.wr)
                 IN  Ret(run \o <<<<"errread", "sha256">>>>, s1,
                         err_from_last(s1))

Sha1 ==
    \E x \in Payloads, nat \in HashOutcomes :
        OneShot("sha1", <<Some(x)>>, nat, sha1(errSlot, x, nat))

Sha256 ==
    \E x \in Payloads, nat \in HashOutcomes :
        OneShot("sha256", <<Some(x)>>, nat, sha256(errSlot, x, nat))

NextHash ==
    \/ Sha1
    \/ Sha256
    \/ Consume

SpecHash == Init /\ [][NextHash]_vars

(***************************** actions: trampolines *************************)
\* One invocation of a trampoline by the native side, on a reader or writer
\* in any state a sequence of earlier invocations can have left it in.
TrampCaps == {1, 2, 3}
TrampSlots == {<<>>, <<101>>}
TrampReaders ==
    {[r EXCEPT !.pos = k] :
        r \in {Cursor(x) : x \in Payloads} \cup {ShortReader(x) : x \in Payloads},
        k \in 0..MaxData}
    \cup {FailingReader(e) : e \in FailTexts}
ReadersInRange == {r \in TrampReaders : r.pos <= Len(r.data)}
TrampWriters ==
    {VecWriter}
    \cup {BoundedWriter(per, room, full, e) :
             per \in 1..MaxData, room \in 0..MaxData,
             full \in {"zero", "err"}, e \in FailTexts}
    \cup {FailingWriter(e) : e \in FailTexts}
PutBytes == {0, 65, 255, 321}

Tramp(op, env, out) ==
    /\ last.op = "idle"
    /\ errSlot' = out.slot
    /\ last' = [MkLast(op, 0, <<>>, NoRes, env,
                       [log |-> <<>>, result |-> Ok]) EXCEPT !.value = out]
    /\ UNCHANGED <<outSlot, errOutSlot, sess, liveNative, leakedNative, held,
                   cw, thr, heap, task>>

\* A native call clears the channel or leaves a text in it between two
\* trampoline invocations.
TrampSlot ==
    /\ last.op = "idle"
    /\ \E s \in TrampSlots : errSlot' = s
    /\ UNCHANGED <<outSlot, errOutSlot, sess, liveNative, leakedNative, held,
                   cw, thr, heap, task, last>>

ReadCb ==
    \E r \in ReadersInRange, cap \in TrampCaps :
        Tramp("read_cb", [reader |-> r, cap |-> cap],
              read_cb(r, cap, errSlot))

WriteCb ==
    \E w \in TrampWriters, bytes \in Payloads :
        Tramp("write_cb", [writer |-> w, bytes |-> bytes],
              write_cb(w, bytes, errSlot))

PutCb ==
    \E w \in TrampWriters, c \in PutBytes :
        Tramp("put_cb", [writer |-> w, c |-> c], put_cb(w, c, errSlot))

NextTramp ==
    \/ ReadCb
    \/ WriteCb
    \/ PutCb
    \/ TrampSlot
    \/ Consume

SpecTramp == Init /\ [][NextTramp]_vars

\* StreamReader::read on queues of every length and buffers of every
\* capacity.
MaxQueue == 3       \* bytes in a queue read on its own
QueueRead ==
    \E q \in BoundedSeq({65, 66, 67}, MaxQueue), cap \in 0..(MaxQueue + 1) :
        Tramp("StreamReader::read", [queue |-> q, cap |-> cap],
              StreamReader_read(q, cap) @@ [slot |-> errSlot])

NextQueue ==
    \/ QueueRead
    \/ Consume

SpecQueue == Init /\ [][NextQueue]_vars

(***************************** integer counts across the boundary ***********)
\* usize values as 16-bit limbs, least significant first: 0, 1, 8, 256,
\* i32::MAX, i32::MAX + 1, u32::MAX, 2^32 and 2^32 + 5.
UsizeValues ==
    {U64(0), U64(1), U64(8), U64(256), <<65535, 32767, 0, 0>>,
     <<0, 32768, 0, 0>>, <<65535, 65535, 0, 0>>, <<0, 0, 1, 0>>,
     <<5, 0, 1, 0>>}

\* `v as c_int` / `v as i32` on a usize: the low 32 bits of v, read as a
\* two's complement number.
as_c_int(v) ==
    IF v[2] >= Limb \div 2 THEN (v[2] - Limb) * Limb + v[1]
    ELSE v[2] * Limb + v[1]

\* The log with the integer argument v on every call of native function f.
WithArg(log, f, v) ==
    [i \in DOMAIN log |->
        IF log[i] = <<"native", f>> THEN <<"native", f, v>> ELSE log[i]]

RandomOutcomes ==
    {[rc |-> 0, wr |-> None]} \cup {[rc |-> 1, wr |-> w] : w \in NativeWrites}

\* random_bytes(len): clear the error slot, make a zeroed Vec of len bytes,
\* hand its pointer and `len as c_int` to zpaq_random; Ok(buf) on zero.  The
\* Vec is modelled by its length: the native side writes through the pointer
\* and cannot change it.
random_bytes(slot, len, nat) ==
    LET s0 == clear_last_error
        buf == [len |-> len]
        pre == ClearErr \o <<<<"native", "zpaq_random", as_c_int(len)>>>>
    IN  IF nat.rc = 0
        THEN ValRet(Ret(pre, s0, Ok), nat, buf)
        ELSE LET s1 == AfterNative(s0, nat.wr)
             IN  ValRet(Ret(pre \o <<<<"errread", "random_bytes">>>>,
                            s1, err_from_last(s1)), nat, buf)

\* An operation that hands the count `n` across the boundary.
Counted(op, n, nat, r) ==
    /\ last.op = "idle"
    /\ errSlot' = r.slot
    /\ liveNative' = liveNative + LiveDelta(r.log)
    /\ leakedNative' = leakedNative + LiveDelta(r.log)
    /\ leakedNative' <= MaxLeak
    /\ last' = [MkLast(op, 0, <<>>, NoRes, nat @@ [count |-> n], r)
                EXCEPT !.value = r.value]
    /\ UNCHANGED <<outSlot, errOutSlot, sess, held, cw, thr, heap, task>>

\* compress_size_stream_parallel(reader, "1", None, None, threads): the
\* native call takes `threads as i32`.
CountSizeParallel ==
    \E t \in UsizeValues, nat \in BridgeOutcomes({"reader_ctx"}) :
      \E r \in {compress_size_stream_parallel(errSlot, <<49>>, None, None,
                                               nat)} :
        Counted("compress_size_stream_parallel", t, nat,
                [r EXCEPT !.log = WithArg(@, "zpaq_compress_size_parallel",
                                          as_c_int(t))]
                    @@ [value |-> None])

\* zpaq_add_archive_size_file("x", "1", threads): the native call takes
\* `threads as c_int`.
CountAddArchiveSize ==
    \E t \in UsizeValues, nat \in BridgeOutcomes({}) :
      \E r \in {zpaq_add_archive_size_file(errSlot, <<120>>, <<49>>, nat)} :
        /\ nat.rnew /\ nat.wnew
        /\ Counted("zpaq_add_archive_size_file", t, nat,
                   [r EXCEPT !.log =
                        WithArg(@, "zpaq_jidac_add_archive_size_file",
                                as_c_int(t))]
                       @@ [value |-> None])

RandomBytes ==
    \E n \in UsizeValues, nat \in RandomOutcomes :
        Counted("random_bytes", n, nat, random_bytes(errSlot, n, nat))

NextCounts ==
    \/ CountSizeParallel
    \/ CountAddArchiveSize
    \/ RandomBytes
    \/ Consume

SpecCounts == Init /\ [][NextCounts]_vars

(***************************** claims ***************************************)
BridgeOps ==
    {"compress_stream", "decompress_stream", "compress_size_stream",
     "compress_size_stream_parallel", "decompress_size_stream"}

\* Every resource the log brought to life was released exactly once, and
\* nothing was released that was not live.
ReleasedExactlyOnce(pre, log) ==
    /\ \A n \in ResNames :
          /\ Allocs(log, n) <= 1
          /\ Frees(log, n) = Allocs(log, n)
    /\ \A i \in DOMAIN log :
          log[i][1] = "free" => LiveAt(pre, log, i, log[i][2])

\* C1: when a one-shot operation (compress_stream, decompress_stream,
\* compress_size_stream, compress_size_stream_parallel,
\* decompress_size_stream) has returned, on whichever path, every native
\* reader/writer handle and every bridge context it constructed has been
\* destroyed exactly once: none is live, none was destroyed twice.
C1_OneShotReleasesAll ==
    last.op \in BridgeOps => ReleasedExactlyOnce(NoRes, last.log)

\* C1 witness: compress_stream failed while building the writer bridge, after
\* the reader bridge had been built.
C1_Witness ==
    /\ last.op = "compress_stream"
    /\ last.result.kind = "Ffi"
    /\ Allocs(last.log, "reader") = 1
    /\ Allocs(last.log, "writer_ctx") = 1
    /\ Allocs(last.log, "writer") = 0

\* C2: whenever StreamingCompressor::new returns an error, at whichever step,
\* every native handle and every boxed context the call allocated has been
\* freed before the error is returned.
C2_NewErrorFreesAll ==
    (last.op = "new" /\ last.result.kind # "Ok")
        => \A n \in ResNames : Frees(last.log, n) = Allocs(last.log, n)

\* The sessions that are ready.
ReadySessions == {i \in SessionIds : sess[i].status = "ready"}

\* C3: sessions that were constructed, pushed to (with success or failure)
\* and dropped leave nothing behind: the live native handles and boxed
\* contexts are those of the sessions still ready (next to what failed
\* calls leaked), a drop frees each of the session's five resources exactly
\* once, and a push frees and allocates nothing.
C3_SessionsLeaveNothing ==
    /\ liveNative = leakedNative + Cardinality(ResNames) * Cardinality(ReadySessions)
    /\ \A i \in SessionIds :
          /\ sess[i].status = "ready" => sess[i].res = AllRes
          /\ sess[i].status = "dropped" => sess[i].res = NoRes
    /\ last.op = "drop" =>
          /\ last.pre = AllRes
          /\ \A n \in ResNames :
                Frees(last.log, n) = 1 /\ Allocs(last.log, n) = 0
    /\ last.op = "push" => LiveDelta(last.log) = 0

\* C3 witness: a session that was pushed to has been dropped and no session
\* is ready.
C3_Witness ==
    /\ last.op = "drop"
    /\ sess[last.sid].queue # <<>>
    /\ ReadySessions = {}
    /\ liveNative = leakedNative

NulCheckedOps ==
    {"compress_stream", "compress_size_stream",
     "compress_size_stream_parallel", "zpaq_add_archive_size_file",
     "zpaq_command", "zpaq_add", "zpaq_extract", "zpaq_list"}

\* One of the caller's string arguments holds a NUL byte.
SomeArgHasNul == \E i \in DOMAIN last.args : OptHasNul(last.args[i])

\* The call built no bridge context and no native handle and called no
\* native entry point other than the clearing of the channel.
OnlyClearedChannel ==
    \A i \in DOMAIN last.log :
        /\ last.log[i][1] = "native"
        /\ last.log[i][2] \in {"zpaq_clear_last_error", "zpaq_clear_last_output"}

\* C5 (as claimed): for compress_stream, compress_size_stream,
\* compress_size_stream_parallel, zpaq_add_archive_size_file and the archive
\* commands, a method, filename, comment, path or argument with a NUL byte
\* makes the call return NulInString before any bridge context or native
\* handle is built and before the native entry point is called.
C5_NulRejectedFirst ==
    (last.op \in NulCheckedOps /\ SomeArgHasNul)
        => (last.result = NulInString /\ OnlyClearedChannel)

\* C5 (amended): the same, except that zpaq_add with an empty input list
\* returns its own Ffi error first, whatever its strings hold; in every case
\* the call is refused before any bridge context, native handle or native
\* entry point.
C5_NulRejectedFirstUnlessNoInputs ==
    (last.op \in NulCheckedOps /\ SomeArgHasNul)
        => /\ OnlyClearedChannel
           /\ IF last.op = "zpaq_add" /\ Len(last.args) = 2
              THEN last.result = Ffi(AddNeedsInput)
              ELSE last.result = NulInString

\* C5 witness: compress_stream refused for a NUL byte in its comment alone.
C5_Witness ==
    /\ last.op = "compress_stream"
    /\ ~OptHasNul(last.args[1]) /\ ~OptHasNul(last.args[2])
    /\ OptHasNul(last.args[3])
    /\ last.result = NulInString

(***************************** claims on method strings *********************)
\* A decimal integer as text: an optional sign, then one or more digits.
Unsigned(t) == IF t # <<>> /\ (t[1] = 43 \/ t[1] = 45) THEN Tail(t) ELSE t

IsDecimalInteger(t) ==
    /\ Unsigned(t) # <<>>
    /\ \A i \in DOMAIN Unsigned(t) : IsDigit(Unsigned(t)[i])

\* The digits of a decimal integer without its leading zeros.
RECURSIVE StripZeros(_)
StripZeros(d) ==
    IF Len(d) > 1 /\ d[1] = 48 THEN StripZeros(Tail(d)) ELSE d

\* The text t is a decimal integer whose value is the one-digit number v.
DenotesDigit(t, v) ==
    /\ IsDecimalInteger(t)
    /\ StripZeros(Unsigned(t)) = <<48 + v>>
    /\ (t[1] = 45 => v = 0)

\* The method string given to the last call of new, trimmed.
LastMethod == trim(last.args[1][1])

\* C6: new called with an explicit (non-numeric) method string that holds a
\* NUL byte returns NulInString before any native call is made: no native
\* handle or context exists when the rejection is returned.
C6_ExplicitNulRejectedFirst ==
    (last.op = "new" /\ ~IsDecimalInteger(LastMethod) /\ HasNul(LastMethod))
        => (last.result = NulInString /\ last.log = <<>>)

\* C7: new with numeric level 4 or 5 fails; with numeric level 1, 2 or 3 it
\* yields a ready session whenever every native step reports success.
C7_LevelsOneToThree ==
    last.op = "new" =>
        /\ (DenotesDigit(LastMethod, 4) \/ DenotesDigit(LastMethod, 5))
              => last.result.kind = "Ffi"
        /\ ((\E v \in 1..3 : DenotesDigit(LastMethod, v))
                /\ last.env.failAt = "none")
              => /\ last.result = Ok
                 /\ sess[last.sid].status = "ready"
                 /\ sess[last.sid].res = AllRes

\* C7 witness: new refused level 4, written with a sign and white space.
C7_Witness ==
    /\ last.op = "new"
    /\ last.args[1][1] # LastMethod
    /\ DenotesDigit(LastMethod, 4)
    /\ last.result.kind = "Ffi"

\* C8: a method string that is empty after trimming, or a decimal integer
\* other than 1, 2 or 3 with any number of digits, makes new return an error
\* before any native allocation: no engine, reader or writer handle and no
\* boxed context is created.
C8_BadLevelRejectedFirst ==
    (last.op = "new"
        /\ (LastMethod = <<>>
            \/ (IsDecimalInteger(LastMethod)
                /\ ~\E v \in 1..3 : DenotesDigit(LastMethod, v))))
        => (last.result.kind = "Ffi" /\ last.log = <<>>)

(***************************** claims on the error channel ******************)
\* The call built its error from the error slot after a failing return code.
ErrorFromReturnCode ==
    \E i \in DOMAIN last.log :
        /\ last.log[i][1] = "errread"
        /\ last.log[i][2] \notin {"FfiReader::new", "FfiWriter::new"}

\* C9: an operation that receives a failing native return code returns Ffi
\* with the contents of the error slot when the slot is not empty, and with
\* "unknown error" exactly when it is empty.
C9_FfiMessageIsSlot ==
    ErrorFromReturnCode =>
        /\ last.result.kind = "Ffi"
        /\ errSlot # <<>> => last.result.msg = errSlot
        /\ errSlot = <<>> => last.result.msg = UnknownError

\* The call cleared the error slot before any other native call.
ClearedFirst ==
    \E i \in DOMAIN last.log :
        /\ last.log[i] = <<"native", "zpaq_clear_last_error">>
        /\ \A j \in 1..(i - 1) : last.log[j][1] # "native"

\* C10: every entry point that can fail clears the error slot before its
\* first native call, so the text of a returned Ffi error was put in the
\* channel during the operation that returns it and is never text left
\* over from an earlier operation: when the error is built from the slot,
\* the call had cleared the slot, or written it, or found it empty.
C10_NoStaleErrorText ==
    (\E i \in DOMAIN last.log : last.log[i][1] = "errread")
        => (ClearedFirst \/ last.env.wr # None \/ last.slot0 = <<>>)

(***************************** claims on captured output ********************)
CmdOps == {"zpaq_command", "zpaq_add", "zpaq_extract", "zpaq_list"}

\* What a successful command returns for a slot the tool wrote `wr` to.
Captured(wr) ==
    IF wr = None THEN <<>> ELSE unwrap_or_default(from_utf8_ok(wr[1]))

\* C11: in any sequence of archive commands, the stdout and stderr text a
\* successful call returns is text captured during that call: when the tool
\* succeeds without writing to a slot the returned string is empty, whatever
\* an earlier call left in that slot.
C11_NoStaleOutput ==
    (last.op \in CmdOps /\ last.result = Ok)
        => /\ last.stdout = Captured(last.env.out)
           /\ last.stderr = Captured(last.env.eout)

\* C11 witness: a command succeeded without writing stdout or stderr after
\* an earlier command had left text in both slots.
C11_Witness ==
    /\ last.op \in CmdOps
    /\ last.result = Ok
    /\ last.out0 # <<>> /\ last.eout0 # <<>>
    /\ last.env.out = None /\ last.env.eout = None
    /\ last.stdout = <<>> /\ last.stderr = <<>>

(***************************** claims on callbacks **************************)
\* The byte sequence sub occurs in text.
Contains(text, sub) ==
    \E i \in 0..(Len(text) - Len(sub)) :
        SubSeq(text, i + 1, i + Len(sub)) = sub

\* The last call ran on a caller's reader or writer that fails on every call.
OnFailingIo ==
    /\ last.op \in {"compress_size_stream", "compress_stream",
                    "decompress_stream"}
    /\ (last.env.reader.kind = "failing" \/ last.env.writer.kind = "failing")

\* The error text of the failing reader or writer of the last call.
FailureText ==
    IF last.env.reader.kind = "failing" THEN last.env.reader.msg
    ELSE last.env.writer.msg

\* C12: when the caller's reader (or writer) fails on every call, the
\* enclosing operation never returns Ok: it returns Ffi with a text that
\* contains the text of the original failure or the marker "callback failed".
C12_CallbackFailurePropagates ==
    OnFailingIo =>
        /\ last.result.kind = "Ffi"
        /\ \/ Contains(last.result.msg, FailureText)
           \/ Contains(last.result.msg, CallbackFailed)

\* C12 witness: compress_size_stream on a reader failing with "boom" has
\* returned an Ffi error whose text contains "boom".
C12_Witness ==
    /\ last.op = "compress_size_stream"
    /\ last.env.reader = FailingReader(<<98, 111, 111, 109>>)
    /\ last.result.kind = "Ffi"
    /\ Contains(last.result.msg, <<98, 111, 111, 109>>)

\* A u64 widened by one limb, and the sum of a sequence of lengths in that
\* width.
Wide(a) == a \o <<0>>

RECURSIVE SumLens(_)
SumLens(lens) ==
    IF lens = <<>> THEN Wide(U64(0))
    ELSE LimbSum(Wide(Head(lens)), SumLens(Tail(lens)))

LimbLe(a, b) ==
    \/ a = b
    \/ \E i \in DOMAIN a :
         a[i] < b[i] /\ \A j \in DOMAIN a : j > i => a[j] = b[j]

\* C13: bytes_written() of a CountingWriter is the sum of the lengths of the
\* writes that returned Ok; a write that returns Ok reports the whole buffer
\* length; no write or flush lowers the count; flush returns Ok and leaves
\* the count as it was.
C13_CountIsSumOfOkWrites ==
    /\ Wide(CountingWriter_bytes_written(cw.w)) = SumLens(cw.okLens)
    /\ last.op = "write" /\ last.result = Ok
         => last.value = Some(last.args[1])
    /\ last.op \in {"write", "flush"}
         => LimbLe(last.env.before.bytes, CountingWriter_bytes_written(cw.w))
    /\ last.op = "flush"
         => last.result = Ok /\ cw.w = last.env.before

C13_Witness ==
    /\ last.op = "flush"
    /\ Len(cw.okLens) >= 2
    /\ cw.calls > Len(cw.okLens)
    /\ \E i \in DOMAIN cw.okLens : cw.okLens[i] = U64(5)
    /\ CountingWriter_bytes_written(cw.w) # U64(0)

\* The total of the count before a write and the buffer length is beyond the
\* u64 range.
WouldExceedU64(before, len) ==
    LimbSum(Wide(before), Wide(len))[U64Limbs + 1] # 0

\* C14: a write whose length would take the count beyond the u64 range returns
\* an error, and the count is what it was before the write.
C14_OverflowIsError ==
    last.op = "write" /\ WouldExceedU64(last.env.before.bytes, last.args[1])
        => /\ last.result = IoOther(ByteCounterOverflow)
           /\ CountingWriter_bytes_written(cw.w) = last.env.before.bytes

C14_Witness ==
    /\ last.op = "write"
    /\ WouldExceedU64(last.env.before.bytes, last.args[1])
    /\ last.args[1] = U64(5)
    /\ last.result.kind = "Io"

OwnMessage(own) == err_from_last(IF own = None THEN <<>> ELSE own[1])

IsPrefix(p, q) == Len(p) <= Len(q) /\ SubSeq(q, 1, Len(p)) = p

\* C20: with two callers on threads of their own, a failed operation returns
\* the message of its own native call as long as no other caller touched the
\* error slot in between; once another caller did, what it returns is whatever
\* the slot held when it was read: "unknown error" or (the beginning of) a
\* text of either caller.
C20_SharedChannelRace ==
    \A t \in Callers :
        thr[t].pc = "done" /\ thr[t].result # Some(Ok)
            => /\ thr[t].result # None
               /\ thr[t].result[1].kind = "Ffi"
               /\ ~thr[t].crossed
                    => thr[t].result[1] = OwnMessage(thr[t].own)
               /\ \/ thr[t].result[1].msg = UnknownError
                  \/ \E u \in Callers :
                        IsPrefix(thr[t].result[1].msg, CallerText(u))

\* A failed operation has returned the text the other caller's native call
\* reported, not its own.
C20_Witness ==
    \E t \in Callers, u \in Callers :
        /\ u # t
        /\ thr[t].pc = "done"
        /\ thr[t].own = Some(CallerText(t))
        /\ thr[t].result = Some(Ffi(CallerText(u)))

(***************************** claims on owners *****************************)
\* The threads that hold address a in a local or in a field of their session.
Holders(a) == {t \in Callers : \E n \in ResNames : task[t].loc[n] = a}

\* Whatever a thread touched through a trampoline or freed was a live object
\* of its own, and a live handle's context is a live object of the handle's
\* owner.
NothingShared ==
    /\ \A t \in Callers : task[t].sound
    /\ \A a \in Addrs :
          /\ heap[a].live => Cardinality(Holders(a)) <= 1
          /\ heap[a].live /\ Holders(a) # {} => Holders(a) = {heap[a].owner}
          /\ heap[a].live /\ heap[a].ctx # 0
                => OwnLive(heap[a].owner, heap[a].ctx)

\* C21: with operations and sessions running on threads of their own, every
\* live handle and context is held by exactly one operation or session, the
\* one that made it; a trampoline runs only on the context of its own
\* operation; and whatever is freed is freed once, by its owner.
C21_OneOwnerAlways ==
    /\ NothingShared
    /\ \A a \in Addrs : heap[a].live => Holders(a) = {heap[a].owner}

(***************************** claims on failures ***************************)
\* The last call was refused or failed: a string argument holds a NUL byte,
\* the method of new names no level, a native step returned a null handle
\* or a failing return code, or the caller's reader or writer failed inside
\* a trampoline.
InputRefused ==
    \/ last.op \in NulCheckedOps /\ SomeArgHasNul
    \/ /\ last.op = "new"
       /\ \/ LastMethod = <<>>
          \/ HasNul(LastMethod)
          \/ \E v \in {0} \cup (4..9) : DenotesDigit(LastMethod, v)

NativeFailed ==
    \/ last.op = "new" /\ last.env.failAt # "none"
    \/ last.op = "push" /\ last.env.rc < 0
    \/ /\ last.op \notin {"idle", "new", "push", "drop", "bits"}
       /\ \/ "rnew" \in DOMAIN last.env /\ ~last.env.rnew
          \/ "wnew" \in DOMAIN last.env /\ ~last.env.wnew
          \/ last.env.rc # 0

\* The caller's reader or writer failed inside a trampoline of the call.
TrampolineFailed == "reader" \in DOMAIN last.env /\ OnFailingIo

FailureDetected == InputRefused \/ NativeFailed \/ TrampolineFailed

\* C22: every failure, whether found in the arguments, reported by a native
\* return code or null handle, or raised by the caller's reader or writer
\* inside a trampoline, comes back to the caller as a typed error (Ffi or
\* NulInString); every call returns a result.
C22_FailuresAreTypedErrors ==
    /\ last.op # "idle" => last.result.kind \in {"Ok", "Ffi", "NulInString"}
    /\ FailureDetected => last.result.kind \in {"Ffi", "NulInString"}

\* C22 witness: compress_stream whose writer failed inside the write
\* trampoline has returned an Ffi error to its caller.
C22_Witness ==
    /\ last.op = "compress_stream"
    /\ TrampolineFailed
    /\ last.env.writer.kind = "failing"
    /\ \E i \in DOMAIN last.log : last.log[i] = <<"tramp", "writer_ctx">>
    /\ last.result.kind = "Ffi"

(***************************** claims on digests ****************************)
\* The native state of the last digest call, and its result and free calls.
HashState == last.op
HashResultCalls ==
    Count(last.log, <<"native", "zpaq_" \o last.op \o "_result">>)

\* C23: sha1 and sha256, once the native constructor has given a state,
\* call the result operation exactly once and then free the state exactly
\* once whatever the return code, and return an error when the code is not
\* zero; a null state gives an error with no result call and no free.
C23_DigestStateReleased ==
    last.op \in {"sha1", "sha256"} =>
        IF last.env.hnew
        THEN /\ HashResultCalls = 1
             /\ Frees(last.log, HashState) = 1
             /\ Allocs(last.log, HashState) = 1
             /\ \E i, j \in DOMAIN last.log :
                    /\ i < j
                    /\ last.log[i][1] = "native"
                    /\ last.log[i][2] = "zpaq_" \o last.op \o "_result"
                    /\ last.log[j] = <<"free", HashState>>
             /\ last.env.rc # 0 => last.result.kind = "Ffi"
             /\ last.env.rc = 0 => last.result = Ok
        ELSE /\ last.result.kind = "Ffi"
             /\ HashResultCalls = 0
             /\ Frees(last.log, HashState) = 0

\* C23 witness: sha1 whose result call failed has freed its state and
\* returned an error.
C23_Witness ==
    /\ last.op = "sha1"
    /\ last.env.hnew
    /\ last.env.rc # 0
    /\ Frees(last.log, "sha1") = 1
    /\ last.result.kind = "Ffi"

(***************************** claims on trampolines ************************)
\* What is left to read in the reader the last read trampoline was given.
LeftToRead == Len(last.env.reader.data) - last.env.reader.pos

\* C24: one invocation of the read trampoline with capacity n makes one read
\* on the reader and returns the count that read produced, between 0 and n
\* (0 only at end of input), with exactly those bytes delivered, or else
\* returns the sentinel -2, which is no byte count.
C24_ReadTrampolineResult ==
    /\ RUST_CALLBACK_ERROR = -2
    /\ last.op = "read_cb" =>
          IF last.env.reader.kind = "failing"
          THEN /\ last.value.ret = RUST_CALLBACK_ERROR
               /\ last.value.bytes = <<>>
          ELSE /\ last.value.ret \in 0..last.env.cap
               /\ last.value.ret =
                      Min(LeftToRead,
                          IF last.env.reader.kind = "short" THEN 1
                          ELSE last.env.cap)
               /\ last.value.reader.pos =
                      last.env.reader.pos + last.value.ret
               /\ last.value.bytes =
                      SubSeq(last.env.reader.data, last.env.reader.pos + 1,
                             last.env.reader.pos + last.value.ret)
               /\ last.value.slot = last.slot0

\* C24 witness: the read trampoline, given room for three bytes on a reader
\* that yields one byte per read and has two left, has returned 1.
C24_Witness ==
    /\ last.op = "read_cb"
    /\ last.env.reader.kind = "short"
    /\ last.env.cap = 3
    /\ LeftToRead = 2
    /\ last.value.ret = 1

\* The last call was a trampoline invocation that returned the sentinel.
SentinelReturned ==
    /\ last.op \in {"read_cb", "write_cb", "put_cb"}
    /\ last.value.ret = RUST_CALLBACK_ERROR

\* The text of the failure the reader or writer of the last invocation
\* raised.
TrampFailureText ==
    IF last.op = "read_cb" THEN last.env.reader.msg
    ELSE IF last.env.writer.kind = "bounded" /\ last.env.writer.full = "zero"
    THEN WriteZero
    ELSE last.env.writer.msg

\* C25: right after a read, write or put trampoline has returned the
\* sentinel, the error slot holds the text of the failure that caused it,
\* whatever that text is.
C25_SlotHoldsFailureText ==
    SentinelReturned => errSlot = TrampFailureText

\* The bytes the last write or put trampoline was asked to write.
BytesGiven ==
    IF last.op = "write_cb" THEN last.env.bytes ELSE <<last.env.c % 256>>

\* What the writer of the last invocation took during it.
BytesTaken ==
    SubSeq(last.value.writer.buf, Len(last.env.writer.buf) + 1,
           Len(last.value.writer.buf))

\* C26: the write trampoline returns 0 or the sentinel; it returns 0 only
\* when the writer has taken every byte of the buffer, in order, also when
\* the writer takes the buffer in several parts; on the sentinel the writer
\* has taken a proper prefix of the buffer at most. The put trampoline does
\* the same with its one byte.
C26_WriteTrampolineAllOrSentinel ==
    last.op \in {"write_cb", "put_cb"} =>
        /\ last.value.ret \in {0, RUST_CALLBACK_ERROR}
        /\ last.value.ret = 0 => BytesTaken = BytesGiven
        /\ last.value.ret = RUST_CALLBACK_ERROR =>
              /\ Len(BytesTaken) < Len(BytesGiven)
              /\ BytesTaken = SubSeq(BytesGiven, 1, Len(BytesTaken))
        /\ (last.env.writer.kind = "bounded"
               /\ last.env.writer.room >= Len(BytesGiven))
              => last.value.ret = 0

\* C26 witness: the write trampoline, given two bytes and a writer that
\* takes one byte per write, has returned 0 with both bytes written.
C26_Witness ==
    /\ last.op = "write_cb"
    /\ last.env.writer.kind = "bounded"
    /\ last.env.writer.per = 1
    /\ Len(last.env.bytes) = 2
    /\ last.value.ret = 0
    /\ last.value.writer.buf = last.env.bytes

(***************************** claims on registration ***********************)
\* The native entry point that registers the context c.
RegisterOf(c) ==
    IF c = "reader_ctx" THEN "zpaq_reader_new" ELSE "zpaq_writer_new"

\* The last call asked the native side to register c and got a null handle.
RegistrationFailed(c) ==
    /\ last.op \in BridgeOps
    /\ Count(last.log, <<"native", RegisterOf(c)>>) = 1
    /\ IF c = "reader_ctx" THEN ~last.env.rnew
       ELSE last.env.rnew /\ ~last.env.wnew

\* C27: when the registration of a reader or writer bridge returns a null
\* handle, the boxed context is freed in the very next step and exactly once,
\* the operation returns an error, and no trampoline runs on that context.
C27_NullRegistrationFreesContext ==
    \A c \in CtxNames :
        RegistrationFailed(c) =>
            /\ \E i \in DOMAIN last.log :
                  /\ last.log[i] = <<"native", RegisterOf(c)>>
                  /\ i < Len(last.log)
                  /\ last.log[i + 1] = <<"free", c>>
            /\ Frees(last.log, c) = 1
            /\ Allocs(last.log, HandleOf(c)) = 0
            /\ Count(last.log, <<"tramp", c>>) = 0
            /\ last.result.kind = "Ffi"

\* C27 witness: decompress_stream got a reader handle and then a null writer
\* handle; the writer context is gone and an error came back.
C27_Witness ==
    /\ last.op = "decompress_stream"
    /\ RegistrationFailed("writer_ctx")
    /\ Frees(last.log, "writer_ctx") = 1
    /\ last.result.kind = "Ffi"

(***************************** claims on release order **********************)
\* The names of what a log frees, in the order it frees them.
IsFree(e) == e[1] = "free"
FreeOrder(log) ==
    LET f == SelectSeq(log, IsFree) IN [i \in DOMAIN f |-> f[i][2]]

\* C28: dropping a session, pushed to or not, frees the writer handle, then
\* the reader handle, then the engine handle, and after these the two boxed
\* contexts.
C28_DropOrder ==
    last.op = "drop" =>
        /\ Len(FreeOrder(last.log)) = 5
        /\ SubSeq(FreeOrder(last.log), 1, 3)
              = <<"writer", "reader", "compressor">>
        /\ {FreeOrder(last.log)[4], FreeOrder(last.log)[5]} = CtxNames

\* C28 witness: a session that was never pushed to has been dropped, its
\* engine freed third and its contexts last.
C28_Witness ==
    /\ last.op = "drop"
    /\ sess[last.sid].queue = <<>>
    /\ FreeOrder(last.log)[3] = "compressor"
    /\ FreeOrder(last.log)[5] \in CtxNames

\* b was constructed after a and both were released, in the last call.
BuiltThenReleased(a, b) ==
    /\ Allocs(last.log, a) = 1 /\ Allocs(last.log, b) = 1
    /\ Frees(last.log, a) = 1 /\ Frees(last.log, b) = 1
    /\ \E i, j \in DOMAIN last.log :
          i < j /\ last.log[i] = <<"alloc", a>> /\ last.log[j] = <<"alloc", b>>

\* b is released before a in the last call.
ReleasedBefore(b, a) ==
    \E i, j \in DOMAIN last.log :
        i < j /\ last.log[i] = <<"free", b>> /\ last.log[j] = <<"free", a>>

\* The last call was new or a one-shot operation and returned an error.
FailedBuild ==
    /\ last.op \in BridgeOps \cup {"new"}
    /\ last.result.kind # "Ok"

\* C29: on every failing path of new and of the one-shot operations, of two
\* resources the call constructed, the one constructed later is released
\* first.
C29_ReleasedInReverse ==
    FailedBuild =>
        \A a, b \in ResNames :
            BuiltThenReleased(a, b) => ReleasedBefore(b, a)

\* C30: in new and in the one-shot operations, when a native call has
\* reported failure, every native handle and boxed context of the operation
\* has been freed by the time the error channel is read to build the error:
\* nothing of the operation is live at the read and nothing is freed after it.
C30_TeardownBeforeErrorRead ==
    (last.op \in BridgeOps \cup {"new"} /\ ErrorFromReturnCode) =>
        \A i \in DOMAIN last.log :
            last.log[i][1] = "errread" =>
                /\ \A n \in ResNames : ~LiveAt(last.pre, last.log, i, n)
                /\ \A j \in DOMAIN last.log :
                      j > i => last.log[j][1] # "free"

(***************************** claims on the engine protocol ****************)
\* The engine's protocol entry points, and the calls a log makes to them.
ProtocolCalls ==
    {"zpaq_compressor_set_output", "zpaq_compressor_set_input",
     "zpaq_compressor_write_tag", "zpaq_compressor_start_block_level",
     "zpaq_compressor_start_block_method", "zpaq_compressor_start_segment",
     "zpaq_compressor_compress", "zpaq_compressor_end_segment",
     "zpaq_compressor_end_block"}
IsProtocolCall(e) == e[1] = "native" /\ e[2] \in ProtocolCalls
EngineCalls(log) == SelectSeq(log, IsProtocolCall)

\* The five setup calls, the block started by `start`.
SetupCalls(start) ==
    <<<<"native", "zpaq_compressor_set_output">>,
      <<"native", "zpaq_compressor_set_input">>,
      <<"native", "zpaq_compressor_write_tag">>,
      <<"native", start>>,
      <<"native", "zpaq_compressor_start_segment", <<None, None>>>>>>

\* The position of the failing step among the setup calls (6: none fails).
FailingSetupStep ==
    IF last.env.failAt = "zpaq_compressor_set_output" THEN 1
    ELSE IF last.env.failAt = "zpaq_compressor_set_input" THEN 2
    ELSE IF last.env.failAt = "zpaq_compressor_write_tag" THEN 3
    ELSE IF last.env.failAt = "start_block" THEN 4
    ELSE IF last.env.failAt = "zpaq_compressor_start_segment" THEN 5
    ELSE 6

\* C31: the engine calls of new are a prefix of attach output, attach input,
\* write tag, start block (by level or by method string), start segment with
\* no filename and no comment; the prefix ends at the first failing step and
\* is complete exactly when new returns a session; push makes one compress
\* call, bits and drop make none, and both push and bits act on a session
\* whose setup was completed; no end-segment or end-block call is made.
C31_EngineProtocol ==
    /\ last.op = "new" =>
          \E k \in 0..5 :
              /\ EngineCalls(last.log) =
                    SubSeq(SetupCalls(
                        IF \E v \in 1..3 : DenotesDigit(LastMethod, v)
                        THEN "zpaq_compressor_start_block_level"
                        ELSE "zpaq_compressor_start_block_method"), 1, k)
              /\ k <= FailingSetupStep
              /\ last.result = Ok <=> k = 5 /\ FailingSetupStep = 6
              /\ last.result = Ok <=> sess[last.sid].status = "ready"
    /\ last.op = "push" =>
          /\ last.pre = AllRes
          /\ Len(EngineCalls(last.log)) = 1
          /\ EngineCalls(last.log)[1][2] = "zpaq_compressor_compress"
    /\ last.op = "bits" => last.pre = AllRes /\ EngineCalls(last.log) = <<>>
    /\ last.op = "drop" => EngineCalls(last.log) = <<>>
    /\ \A i \in DOMAIN last.log :
          last.log[i][2] \notin {"zpaq_compressor_end_segment",
                                 "zpaq_compressor_end_block"}

\* C31 witness: new with a method string stopped at a failing start-block
\* call: four setup calls were made and no segment was started.
C31_Witness ==
    /\ last.op = "new"
    /\ last.env.failAt = "start_block"
    /\ Len(EngineCalls(last.log)) = 4
    /\ EngineCalls(last.log)[4] = <<"native", "zpaq_compressor_start_block_method">>
    /\ last.result.kind = "Ffi"

(***************************** claims on push *******************************)
\* The bytes the read trampolines of the last push handed to the engine.
Delivered ==
    SubSeq(last.value.before \o <<last.value.b>>, 1,
           Len(last.value.before) + 1 - Len(last.value.after))

\* C32: push(b) puts b at the back of the queue (what the engine did not
\* read of the old queue followed by b is what the queue holds afterwards),
\* calls the native compress entry point once, with count 1, and returns
\* the channel's error exactly when that call returned a negative value.
C32_PushOnce ==
    last.op = "push" =>
        /\ Count(last.log, <<"native", "zpaq_compressor_compress", 1>>) = 1
        /\ Len(EngineCalls(last.log)) = 1
        /\ Delivered \o last.value.after
              = last.value.before \o <<last.value.b>>
        /\ Count(last.log, <<"tramp", "reader_ctx">>) = 0
              => last.value.after = last.value.before \o <<last.value.b>>
        /\ last.env.rc < 0 <=> last.result.kind = "Ffi"
        /\ last.env.rc < 0 <=> ErrorFromReturnCode
        /\ last.env.rc >= 0 <=> last.result = Ok

\* C32 witness: a push whose native call returned 1 has returned Ok.
C32_Witness ==
    /\ last.op = "push"
    /\ last.env.rc = 1
    /\ last.value.b = 66
    /\ last.result = Ok

(***************************** claims on refused calls **********************)
\* The last call was refused for a NUL byte in one of its strings.
RefusedForNul ==
    /\ last.op \in NulCheckedOps
    /\ SomeArgHasNul
    /\ last.result = NulInString

\* C33: a call refused for a NUL byte creates no handle and no context and
\* leaves the error slot and both captured-output slots as they were before
\* the call.
C33_RefusalHasNoEffect ==
    RefusedForNul =>
        /\ \A i \in DOMAIN last.log : last.log[i][1] # "alloc"
        /\ errSlot = last.slot0
        /\ outSlot = last.out0
        /\ errOutSlot = last.eout0

(***************************** claims on size operations ********************)
\* compress_size, compress_size_parallel and decompress_size are
\* compress_size_stream, compress_size_stream_parallel and
\* decompress_size_stream on a cursor over the caller's bytes.
SizeOps == {"compress_size", "compress_size_parallel", "decompress_size"}

\* C34: the size operations install one reader bridge and no writer bridge;
\* the only trampoline run during them is the read trampoline of that
\* bridge, and the size they return is the value the native call wrote to
\* its output argument.
C34_SizeOpsReadOnly ==
    last.op \in SizeOps =>
        /\ Allocs(last.log, "reader_ctx") = 1
        /\ Allocs(last.log, "reader") <= 1
        /\ Allocs(last.log, "writer_ctx") = 0
        /\ Allocs(last.log, "writer") = 0
        /\ Count(last.log, <<"native", "zpaq_writer_new">>) = 0
        /\ \A i \in DOMAIN last.log :
              last.log[i][1] = "tramp" => last.log[i][2] = "reader_ctx"
        /\ last.result = Ok => last.value = Some(last.env.size)

\* C34 witness: compress_size has read its input through the read
\* trampoline and returned the size the native call reported.
C34_Witness ==
    /\ last.op = "compress_size"
    /\ Count(last.log, <<"tramp", "reader_ctx">>) > 1
    /\ last.result = Ok
    /\ last.value = Some(last.env.size)
    /\ last.env.size > 0

(***************************** claims on argument vectors *******************)
\* The caller's strings of the last call, in the order they were given.
CallerArgs == [i \in DOMAIN last.args |-> last.args[i][1]]

\* The number a string of decimal digits denotes; -1 if it is no such string
\* or has a needless leading zero.
RECURSIVE DigitsValue(_)
DigitsValue(t) ==
    IF Len(t) = 1 THEN t[1] - 48
    ELSE 10 * DigitsValue(SubSeq(t, 1, Len(t) - 1)) + (t[Len(t)] - 48)
DecimalValue(t) ==
    IF t = <<>> \/ (\E i \in DOMAIN t : ~IsDigit(t[i]))
          \/ (Len(t) > 1 /\ t[1] = 48)
    THEN -1 ELSE DigitsValue(t)

JidacRuns == Count(last.log, <<"native", "zpaq_jidac_run">>)

\* C35: an archive command calls the native archive entry point at most
\* once; the vector it passes starts with "zpaq" and goes on with the
\* caller's arguments in their order; for zpaq_add it is zpaq, add, the
\* archive, the inputs in order, -method, the method, -threads, the thread
\* count in decimal; a non-zero return gives the channel's error and no
\* captured output.
C35_CommandVector ==
    last.op \in {"zpaq_command", "zpaq_add"} =>
        /\ JidacRuns <= 1
        /\ JidacRuns = 1 =>
              /\ last.argv[1] = ProgName
              /\ last.op = "zpaq_command" => Tail(last.argv) = CallerArgs
              /\ last.op = "zpaq_add" =>
                    LET n == Len(CallerArgs)
                    IN  /\ Len(last.argv) = n + 5
                        /\ last.argv[2] = WordAdd
                        /\ SubSeq(last.argv, 3, n + 1)
                              = SubSeq(CallerArgs, 1, n - 1)
                        /\ last.argv[n + 2] = OptMethod
                        /\ last.argv[n + 3] = CallerArgs[n]
                        /\ last.argv[n + 4] = OptThreads
                        /\ DecimalValue(last.argv[n + 5]) = last.env.threads
              /\ last.env.rc # 0 =>
                    /\ last.result.kind = "Ffi"
                    /\ ErrorFromReturnCode
                    /\ last.stdout = <<>> /\ last.stderr = <<>>
              /\ last.env.rc = 0 => last.result = Ok

\* C35 witness: zpaq_add with two different inputs and 100 threads has
\* called the native entry point, which failed after capturing output.
C35_Witness ==
    /\ last.op = "zpaq_add"
    /\ JidacRuns = 1
    /\ Len(last.args) = 4
    /\ last.args[2] # last.args[3]
    /\ last.env.threads = 100
    /\ last.env.rc # 0
    /\ outSlot # <<>>
    /\ last.result.kind = "Ffi"

\* C36: zpaq_add with no inputs returns an error, calls no native function,
\* and leaves the error slot and both captured-output slots as they were.
C36_AddWithoutInputs ==
    (last.op = "zpaq_add" /\ Len(last.args) = 2) =>
        /\ last.result.kind = "Ffi"
        /\ last.log = <<>>
        /\ errSlot = last.slot0
        /\ outSlot = last.out0
        /\ errOutSlot = last.eout0

\* C36 witness: zpaq_add with no inputs was refused while all three slots
\* held text from an earlier call, and they still hold it.
C36_Witness ==
    /\ last.op = "zpaq_add"
    /\ Len(last.args) = 2
    /\ last.result.kind = "Ffi"
    /\ errSlot # <<>> /\ outSlot # <<>> /\ errOutSlot # <<>>

(***************************** claims on the byte queue *********************)
\* C37: while every native compress call reads the byte offered to it, the
\* queue of a session is empty before and after every push and holds one
\* byte at most during it, and the byte delivered during a push is the byte
\* given to that push, also when the push returns an error.
C37_QueueDrained ==
    /\ \A i \in SessionIds :
          sess[i].status = "ready" => sess[i].queue = <<>>
    /\ last.op = "push" =>
          /\ last.value.before = <<>>
          /\ last.value.after = <<>>
          /\ Delivered = <<last.value.b>>

\* C37 witness: a push of the byte 66 returned an error after the engine had
\* read that byte; the queue is empty.
C37_Witness ==
    /\ last.op = "push"
    /\ last.result.kind = "Ffi"
    /\ Delivered = <<66>>
    /\ sess[last.sid].queue = <<>>

\* C39: a read on the byte queue with a buffer of capacity n returns
\* k = min(queue length, n), hands out the k oldest bytes in the order they
\* were pushed, removes those and leaves the rest in order; on an empty
\* queue it returns 0; it never fails.
C39_QueueRead ==
    last.op = "StreamReader::read" =>
        /\ last.value.n = Min(Len(last.env.queue), last.env.cap)
        /\ last.value.out \o last.value.queue = last.env.queue
        /\ Len(last.value.out) = last.value.n
        /\ last.env.queue = <<>> => last.value.n = 0

\* C39 witness: a read with room for two bytes on a queue of three has
\* handed out the two oldest and left the newest.
C39_Witness ==
    /\ last.op = "StreamReader::read"
    /\ last.env.queue = <<65, 66, 67>>
    /\ last.env.cap = 2
    /\ last.value.out = <<65, 66>>
    /\ last.value.queue = <<67>>

(***************************** claims on integer counts *********************)
\* The native functions that take a count from the caller.
CountCalls ==
    {"zpaq_compress_size_parallel", "zpaq_jidac_add_archive_size_file",
     "zpaq_random"}

\* The counts the native side received during the last operation.
ReceivedCounts ==
    {last.log[i][3] : i \in {j \in DOMAIN last.log :
        /\ Len(last.log[j]) = 3
        /\ last.log[j][1] = "native"
        /\ last.log[j][2] \in CountCalls}}

\* The native int v is the number the usize u stands for.
SameNumber(u, v) == v >= 0 /\ u = U64(v)

\* The usize u is at most i32::MAX.
FitsCInt(u) == u[3] = 0 /\ u[4] = 0 /\ u[2] < Limb \div 2

\* C38: every thread count and every length the native side receives is the
\* caller's number, and random_bytes on success returns a buffer of exactly
\* len bytes.
C38_CountsUnchanged ==
    "count" \in DOMAIN last.env =>
        /\ \A v \in ReceivedCounts : SameNumber(last.env.count, v)
        /\ last.op = "random_bytes" /\ last.result = Ok
              => last.value = Some([len |-> last.env.count])

\* The counts up to i32::MAX arrive unchanged, the larger ones never do, and
\* random_bytes on success returns a buffer of len bytes for every len.
CountsUnchangedWhenInRange ==
    "count" \in DOMAIN last.env =>
        /\ \A v \in ReceivedCounts :
              SameNumber(last.env.count, v) <=> FitsCInt(last.env.count)
        /\ last.op = "random_bytes" /\ last.result = Ok
              => last.value = Some([len |-> last.env.count])

====
